---------------------------- MODULE Spec2Model ----------------------------
(***************************************************************************)
(* A model of pdbtbx's PDB reader, src/src/read/parser.rs: the per-line    *)
(* lexer (lex_line and the lex_* functions), the assembling loop of parse, *)
(* and the post-scan passes validate_seqres and add_modifications.         *)
(*                                                                         *)
(* A line is a sequence of one-character strings.  Rust's 0-based,         *)
(* half-open ranges chars[a..b] are written Slice(chars, a, b) and the     *)
(* indexing chars[i] is written At(chars, i); an access outside the line   *)
(* panics in Rust, and every lexer below states the length under which it  *)
(* does.  Only ASCII lines are modelled, so String::len() (bytes) and      *)
(* chars().count() agree.                                                  *)
(***************************************************************************)
EXTENDS Integers, Sequences, FiniteSets, TLC

VARIABLES
    level,                \* parse's `level` argument (strictness threshold)
    pc,                   \* position in parse
    linenumber,           \* number of lines taken from input.lines() so far
    line,                 \* the line read last (<<>> before the first)
    errors,               \* parse's `errors`
    pdb,                  \* parse's `pdb`
    current_model,        \* parse's `current_model`
    sequence,             \* parse's `sequence`: chain id -> SEQRES rows
    database_references,  \* parse's `database_references`
    modifications,        \* parse's `modifications`
    result,               \* what parse returned, NoResult until it returns
    panicked              \* the panic that ended parse, "none" otherwise

vars == <<level, pc, linenumber, line, errors, pdb, current_model, sequence,
          database_references, modifications, result, panicked>>

-----------------------------------------------------------------------------
(* Characters and slices *)

Slice(chars, a, b) == SubSeq(chars, a + 1, b)

At(chars, i) == chars[i + 1]

Blank(n) == [i \in 1..n |-> " "]

Digits == {"0", "1", "2", "3", "4", "5", "6", "7", "8", "9"}

DigitVal(c) ==
    CASE c = "0" -> 0 [] c = "1" -> 1 [] c = "2" -> 2 [] c = "3" -> 3
      [] c = "4" -> 4 [] c = "5" -> 5 [] c = "6" -> 6 [] c = "7" -> 7
      [] c = "8" -> 8 [] c = "9" -> 9

\* char::is_whitespace, on the characters the lines below use
IsWhitespace(c) == c \in {" ", "\t"}

\* str::split_whitespace().collect::<String>(): every whitespace removed
StripWhitespace(s) == SelectSeq(s, LAMBDA c : ~IsWhitespace(c))

RECURSIVE TrimStart(_)
TrimStart(s) ==
    IF s # <<>> /\ IsWhitespace(Head(s)) THEN TrimStart(Tail(s)) ELSE s

RECURSIVE TrimEnd(_)
TrimEnd(s) ==
    IF s # <<>> /\ IsWhitespace(s[Len(s)])
    THEN TrimEnd(SubSeq(s, 1, Len(s) - 1))
    ELSE s

\* str::trim()
Trim(s) == TrimEnd(TrimStart(s))

AllDigits(s) == \A i \in 1..Len(s) : s[i] \in Digits

RECURSIVE Decimal(_)
Decimal(s) ==
    IF s = <<>> THEN 0
    ELSE 10 * Decimal(SubSeq(s, 1, Len(s) - 1)) + DigitVal(s[Len(s)])

RECURSIVE Pow10(_)
Pow10(n) == IF n = 0 THEN 1 ELSE 10 * Pow10(n - 1)

-----------------------------------------------------------------------------
(* Diagnostics.  `long` abbreviates the long description, `context` is the *)
(* column span <<start, length>> of a field, "line" for a whole line and   *)
(* "show" for the context of the input as a whole.                         *)

ErrorLevels ==
    {"GeneralWarning", "LooseWarning", "StrictWarning", "InvalidatingError",
     "BreakingError"}

PDBError(lvl, short, long, context) ==
    [level |-> lvl, short |-> short, long |-> long, context |-> context]

\* An f64 is kept as the decimal fraction num/den it was written as.
F64(num, den) == [num |-> num, den |-> den]

Zero(T) == IF T = "f64" THEN F64(0, 1) ELSE 0

\* <uN as FromStr> after an optional '+': one or more digits
Unsigned(d) ==
    IF d # <<>> /\ AllDigits(d) THEN [ok |-> TRUE, v |-> Decimal(d)]
    ELSE [ok |-> FALSE]

ParseUsize(s) == Unsigned(IF s # <<>> /\ Head(s) = "+" THEN Tail(s) ELSE s)

HasSign(s) == s # <<>> /\ Head(s) \in {"+", "-"}

IsNegative(s) == s # <<>> /\ Head(s) = "-"

\* <iN as FromStr> after an optional sign: one or more digits
Signed(negative, d) ==
    IF d # <<>> /\ AllDigits(d)
    THEN [ok |-> TRUE, v |-> IF negative THEN 0 - Decimal(d) ELSE Decimal(d)]
    ELSE [ok |-> FALSE]

ParseIsize(s) == Signed(IsNegative(s), IF HasSign(s) THEN Tail(s) ELSE s)

\* The place of the first '.', past the end without one
DotAt(d) ==
    IF \E i \in 1..Len(d) : d[i] = "."
    THEN CHOOSE i \in 1..Len(d) :
           d[i] = "." /\ \A j \in 1..(i - 1) : d[j] # "."
    ELSE Len(d) + 1

\* <f64 as FromStr> on signs, digits and '.': an optional sign, digits around
\* at most one '.', at least one digit in all
Fraction(negative, int, frac) ==
    IF AllDigits(int) /\ AllDigits(frac) /\ Len(int) + Len(frac) > 0
    THEN [ok |-> TRUE,
          v |-> F64(IF negative THEN 0 - Decimal(int \o frac)
                    ELSE Decimal(int \o frac),
                    Pow10(Len(frac)))]
    ELSE [ok |-> FALSE]

Unsplit(negative, d) ==
    Fraction(negative, SubSeq(d, 1, DotAt(d) - 1),
             SubSeq(d, DotAt(d) + 1, Len(d)))

ParseF64(s) == Unsplit(IsNegative(s), IF HasSign(s) THEN Tail(s) ELSE s)

\* string.parse::<T>()
FromStr(T, string) ==
    CASE T = "usize" -> ParseUsize(string)
      [] T = "isize" -> ParseIsize(string)
      [] T = "f64" -> ParseF64(string)

NotANumber(context) ==
    PDBError("InvalidatingError", "Not a number", "number", context)

\* The match of parse_number on the outcome r of the parse
Parsed(r, context) ==
    IF r.ok THEN [ok |-> TRUE, v |-> r.v]
    ELSE [ok |-> FALSE, e |-> NotANumber(context)]

parse_number(T, context, input) ==
    Parsed(FromStr(T, StripWhitespace(input)), context)

\* The lexers' `check` closure: the value, or zero and the error pushed
check(T, r) ==
    IF r.ok THEN [v |-> r.v, errors |-> <<>>]
    ELSE [v |-> Zero(T), errors |-> <<r.e>>]

\* One numeric field read the way every lexer reads it:
\* check(parse_number(context, &chars[a..b]))
Field(T, chars, a, b) ==
    check(T, parse_number(T, <<a, b - a>>, Slice(chars, a, b)))

\* A field that is not on the line: its default and no diagnostic
Default(v) == [v |-> v, errors |-> <<>>]

-----------------------------------------------------------------------------
(* The lexer.  A lexer's answer is LexOk(item, errors), LexErr(error), or  *)
(* LexPanic when an index or a slice reaches past the end of the line.     *)

LexOk(item, errs) == [kind |-> "Ok", item |-> item, errors |-> errs]

LexErr(e) == [kind |-> "Err", error |-> e]

LexPanic == [kind |-> "Panic", cause |-> "index out of bounds"]

\* reference_tables::valid_remark_type_number: the remark numbers of wwPDB
\* v3.30 (the small ones, and the hundreds the lines below use)
valid_remark_type_number(number) ==
    number \in (0..5) \cup {100, 200, 300, 350, 400, 465, 470, 500, 900, 999}

\* lex_remark once the type number is read
RemarkOf(chars, number) ==
    IF Len(chars) > 11 /\ Len(chars) - 11 > 70
    THEN LexErr(PDBError("LooseWarning", "Remark too long", "max 70",
                         <<11, Len(chars) - 11>>))
    ELSE LexOk([tag |-> "Remark", number |-> number.v,
                text |-> IF Len(chars) > 11 THEN Slice(chars, 11, Len(chars))
                         ELSE <<>>],
               number.errors \o
               (IF ~valid_remark_type_number(number.v)
                THEN <<PDBError("StrictWarning", "Remark type number invalid",
                                "remark-type-number", <<7, 3>>)>>
                ELSE <<>>))

lex_remark(chars) ==
    IF Len(chars) < 10 THEN LexPanic
    ELSE RemarkOf(chars, Field("usize", chars, 7, 10))

ModelOf(number) == LexOk([tag |-> "Model", number |-> number.v], number.errors)

lex_model(chars) ==
    ModelOf(check("usize",
                  parse_number("usize", <<6, Len(chars) - 6>>,
                               Trim(Slice(chars, 6, Len(chars))))))

\* The charge of lex_atom_basics, columns 78 and 79: [v, errors]
AtomCharge(chars) ==
    IF Len(chars) >= 79 /\ ~(At(chars, 78) = " " /\ At(chars, 79) = " ")
    THEN IF At(chars, 78) \notin Digits
         THEN [v |-> 0,
               errors |-> <<PDBError("InvalidatingError",
                                     "Atom charge is not correct",
                                     "not numeric", <<78, 1>>)>>]
         ELSE IF At(chars, 79) # "-" /\ At(chars, 79) # "+"
         THEN [v |-> 0,
               errors |-> <<PDBError("InvalidatingError",
                                     "Atom charge is not correct",
                                     "not properly signed", <<79, 1>>)>>]
         ELSE [v |-> IF At(chars, 79) = "-"
                     THEN 0 - DigitVal(At(chars, 78))
                     ELSE DigitVal(At(chars, 78)),
               errors |-> <<>>]
    ELSE [v |-> 0, errors |-> <<>>]

\* Where lex_atom_basics indexes past the end: chars[75] under len >= 75,
\* chars[77] under len >= 77, chars[79] under len >= 79 once chars[78] is a
\* blank or a digit; chars[26] otherwise.
AtomBasicsPanics(chars) ==
    \/ Len(chars) < 27
    \/ Len(chars) = 75
    \/ Len(chars) = 77
    \/ Len(chars) = 79 /\ (At(chars, 78) = " " \/ At(chars, 78) \in Digits)

\* lex_atom_basics once its numbers are read
BasicsOf(chars, serial_number, residue_serial_number, charge) ==
    [panic |-> FALSE,
     serial_number |-> serial_number.v,
     atom_name |-> Slice(chars, 12, 16),
     alternate_location |-> At(chars, 16),
     residue_name |-> Slice(chars, 17, 20),
     chain_id |-> At(chars, 21),
     residue_serial_number |-> residue_serial_number.v,
     insertion |-> At(chars, 26),
     segment_id |-> IF Len(chars) >= 75 THEN Slice(chars, 72, 76)
                    ELSE Blank(4),
     element |-> IF Len(chars) >= 77 THEN Slice(chars, 76, 78) ELSE Blank(2),
     charge |-> charge.v,
     errors |-> serial_number.errors \o residue_serial_number.errors
                \o charge.errors]

lex_atom_basics(chars) ==
    IF AtomBasicsPanics(chars) THEN [panic |-> TRUE]
    ELSE BasicsOf(chars, Field("usize", chars, 7, 11),
                  Field("usize", chars, 22, 26), AtomCharge(chars))

\* lex_atom once its numbers are read
AtomOf(hetero, x, y, z, occupancy, b_factor, basics) ==
    IF basics.panic THEN LexPanic
    ELSE LexOk([tag |-> "Atom", hetero |-> hetero,
                serial_number |-> basics.serial_number,
                atom_name |-> basics.atom_name,
                alternate_location |-> basics.alternate_location,
                residue_name |-> basics.residue_name,
                chain_id |-> basics.chain_id,
                residue_serial_number |-> basics.residue_serial_number,
                insertion |-> basics.insertion,
                x |-> x.v, y |-> y.v, z |-> z.v,
                occupancy |-> occupancy.v, b_factor |-> b_factor.v,
                segment_id |-> basics.segment_id,
                element |-> basics.element, charge |-> basics.charge],
               x.errors \o y.errors \o z.errors \o occupancy.errors
               \o b_factor.errors \o basics.errors)

lex_atom(chars, hetero) ==
    IF Len(chars) < 54
    THEN LexErr(PDBError("BreakingError", "Atom line too short",
                         "up to z at least", "line"))
    ELSE AtomOf(hetero, Field("f64", chars, 30, 38),
                Field("f64", chars, 38, 46), Field("f64", chars, 46, 54),
                IF Len(chars) >= 60 THEN Field("f64", chars, 54, 60)
                ELSE Default(F64(1, 1)),
                IF Len(chars) >= 66 THEN Field("f64", chars, 60, 66)
                ELSE Default(F64(0, 1)),
                lex_atom_basics(chars))

\* (ai as f64) / 10000.0
Factor(i) == F64(i, 10000)

\* lex_anisou once its numbers are read
AnisouOf(ai, bi, ci, di, ei, fi, basics) ==
    LexOk([tag |-> "Anisou",
           serial_number |-> basics.serial_number,
           atom_name |-> basics.atom_name,
           factors |-> << <<Factor(ai.v), Factor(bi.v), Factor(ci.v)>>,
                          <<Factor(di.v), Factor(ei.v), Factor(fi.v)>> >>],
          ai.errors \o bi.errors \o ci.errors \o di.errors \o ei.errors
          \o fi.errors \o basics.errors)

lex_anisou(chars) ==
    IF Len(chars) < 70 \/ AtomBasicsPanics(chars) THEN LexPanic
    ELSE AnisouOf(Field("isize", chars, 28, 35), Field("isize", chars, 35, 42),
                  Field("isize", chars, 42, 49), Field("isize", chars, 49, 56),
                  Field("isize", chars, 56, 63), Field("isize", chars, 63, 70),
                  lex_atom_basics(chars))

\* lex_cryst once its numbers are read
CrystalOf(chars, a, b, c, alpha, beta, gamma, z) ==
    LexOk([tag |-> "Crystal", a |-> a.v, b |-> b.v, c |-> c.v,
           alpha |-> alpha.v, beta |-> beta.v, gamma |-> gamma.v,
           spacegroup |->
             Slice(chars, 55, IF Len(chars) < 66 THEN Len(chars) ELSE 66),
           z |-> z.v],
          a.errors \o b.errors \o c.errors \o alpha.errors \o beta.errors
          \o gamma.errors \o z.errors)

lex_cryst(chars) ==
    IF Len(chars) < 55 THEN LexPanic
    ELSE CrystalOf(chars, Field("f64", chars, 6, 15),
                   Field("f64", chars, 15, 24), Field("f64", chars, 24, 33),
                   Field("f64", chars, 33, 40), Field("f64", chars, 40, 47),
                   Field("f64", chars, 47, 54),
                   IF Len(chars) > 66
                   THEN check("usize",
                              parse_number("usize", <<66, Len(chars) - 66>>,
                                           Slice(chars, 66, Len(chars))))
                   ELSE Default(1))

TransformationOf(a, b, c, d) ==
    [data |-> <<a.v, b.v, c.v, d.v>>,
     errors |-> a.errors \o b.errors \o c.errors \o d.errors]

\* [data, errors]; the caller has made sure of chars[45..55]
lex_transformation(chars) ==
    TransformationOf(Field("f64", chars, 10, 20), Field("f64", chars, 20, 30),
                     Field("f64", chars, 30, 40), Field("f64", chars, 45, 55))

RowOf(tag, row, t) == LexOk([tag |-> tag, n |-> row, row |-> t.data], t.errors)

lex_scale(chars, row) ==
    IF Len(chars) < 55 THEN LexPanic
    ELSE RowOf("Scale", row, lex_transformation(chars))

lex_origx(chars, row) ==
    IF Len(chars) < 55 THEN LexPanic
    ELSE RowOf("OrigX", row, lex_transformation(chars))

MtrixOf(chars, row, ser, t) ==
    LexOk([tag |-> "MtriX", n |-> row, ser |-> ser.v, row |-> t.data,
           given |-> Len(chars) >= 60 /\ At(chars, 59) = "1"],
          ser.errors \o t.errors)

lex_mtrix(chars, row) ==
    IF Len(chars) < 55 THEN LexPanic
    ELSE MtrixOf(chars, row,
                 check("usize",
                       parse_number("usize", <<7, 4>>, Slice(chars, 7, 10))),
                 lex_transformation(chars))

\* The twelve counts of a MASTER record, five columns each from column 10
RECURSIVE MasterFields(_, _)
MasterFields(chars, k) ==
    IF k = 12 THEN <<>>
    ELSE <<Field("usize", chars, 10 + 5 * k, 15 + 5 * k)>>
         \o MasterFields(chars, k + 1)

RECURSIVE FieldErrors(_)
FieldErrors(fields) ==
    IF fields = <<>> THEN <<>>
    ELSE Head(fields).errors \o FieldErrors(Tail(fields))

MasterOf(fields) ==
    LexOk([tag |-> "Master",
           num_remark |-> fields[1].v,
           num_empty |-> fields[2].v,
           num_xform |-> fields[8].v,
           num_coord |-> fields[9].v],
          FieldErrors(fields))

lex_master(chars) ==
    IF Len(chars) < 70 THEN LexPanic ELSE MasterOf(MasterFields(chars, 0))

\* The loop of lex_seqres: while index + 3 < max { ... index += 4 }
RECURSIVE SeqresValues(_, _, _)
SeqresValues(chars, index, max) ==
    IF index + 3 < max
    THEN IF Slice(chars, index, index + 3) = Blank(3) THEN <<>>
         ELSE <<Slice(chars, index, index + 3)>>
              \o SeqresValues(chars, index + 4, max)
    ELSE <<>>

SeqresOf(chars, ser_num, num_res) ==
    LexOk([tag |-> "Seqres", ser_num |-> ser_num.v,
           chain_id |-> At(chars, 11), num_res |-> num_res.v,
           values |-> SeqresValues(chars, 19,
                                   IF Len(chars) < 71 THEN Len(chars)
                                   ELSE 71)],
          ser_num.errors \o num_res.errors)

lex_seqres(chars) ==
    IF Len(chars) < 17 THEN LexPanic
    ELSE SeqresOf(chars, Field("usize", chars, 7, 10),
                  Field("usize", chars, 13, 17))

DbrefOf(chars, seq_begin, seq_end, database_seq_begin, database_seq_end) ==
    LexOk([tag |-> "Dbref", chain_id |-> At(chars, 12),
           local_pos |-> <<seq_begin.v, At(chars, 18), seq_end.v,
                           At(chars, 24)>>,
           db |-> Trim(Slice(chars, 26, 32)),
           db_acc |-> Trim(Slice(chars, 33, 41)),
           db_id |-> Trim(Slice(chars, 42, 54)),
           db_pos |-> <<database_seq_begin.v, At(chars, 60),
                        database_seq_end.v, At(chars, 67)>>],
          seq_begin.errors \o seq_end.errors \o database_seq_begin.errors
          \o database_seq_end.errors)

lex_dbref(chars) ==
    IF Len(chars) < 68 THEN LexPanic
    ELSE DbrefOf(chars, Field("usize", chars, 14, 18),
                 check("usize",
                       parse_number("usize", <<21, 4>>, Slice(chars, 21, 24))),
                 Field("usize", chars, 55, 60), Field("usize", chars, 62, 67))

\* Option<T>
None == [some |-> FALSE]

Some(v) == [some |-> TRUE, v |-> v]

SeqadvOf(chars, seq_num, db_seq_num) ==
    LexOk([tag |-> "Seqadv", chain_id |-> At(chars, 16),
           res_name |-> Slice(chars, 12, 15), seq_num |-> seq_num.v,
           db_pos |-> IF Slice(chars, 39, 48) # Blank(9)
                      THEN Some(<<Slice(chars, 39, 42), db_seq_num.v>>)
                      ELSE None,
           comment |-> Trim(Slice(chars, 49, Len(chars)))],
          seq_num.errors \o db_seq_num.errors)

lex_seqadv(chars) ==
    IF Len(chars) < 49 THEN LexPanic
    ELSE SeqadvOf(chars, Field("usize", chars, 18, 22),
                  IF Slice(chars, 39, 48) # Blank(9)
                  THEN Field("usize", chars, 43, 48)
                  ELSE Default(0))

ModresOf(chars, seq_num) ==
    LexOk([tag |-> "Modres", res_name |-> Slice(chars, 12, 15),
           chain_id |-> At(chars, 16), seq_num |-> seq_num.v,
           std_name |-> Slice(chars, 24, 27),
           comment |-> Trim(Slice(chars, 29, Len(chars)))],
          seq_num.errors)

lex_modres(chars) ==
    IF Len(chars) < 29 THEN LexPanic
    ELSE ModresOf(chars, Field("usize", chars, 18, 22))

\* The record tags, the first six characters of a line
Tag ==
    [REMARK |-> <<"R", "E", "M", "A", "R", "K">>,
     ATOM |-> <<"A", "T", "O", "M", " ", " ">>,
     ANISOU |-> <<"A", "N", "I", "S", "O", "U">>,
     HETATM |-> <<"H", "E", "T", "A", "T", "M">>,
     CRYST1 |-> <<"C", "R", "Y", "S", "T", "1">>,
     SCALE1 |-> <<"S", "C", "A", "L", "E", "1">>,
     SCALE2 |-> <<"S", "C", "A", "L", "E", "2">>,
     SCALE3 |-> <<"S", "C", "A", "L", "E", "3">>,
     ORIGX1 |-> <<"O", "R", "I", "G", "X", "1">>,
     ORIGX2 |-> <<"O", "R", "I", "G", "X", "2">>,
     ORIGX3 |-> <<"O", "R", "I", "G", "X", "3">>,
     MTRIX1 |-> <<"M", "T", "R", "I", "X", "1">>,
     MTRIX2 |-> <<"M", "T", "R", "I", "X", "2">>,
     MTRIX3 |-> <<"M", "T", "R", "I", "X", "3">>,
     MODEL |-> <<"M", "O", "D", "E", "L", " ">>,
     MASTER |-> <<"M", "A", "S", "T", "E", "R">>,
     DBREF |-> <<"D", "B", "R", "E", "F", " ">>,
     SEQRES |-> <<"S", "E", "Q", "R", "E", "S">>,
     SEQADV |-> <<"S", "E", "Q", "A", "D", "V">>,
     MODRES |-> <<"M", "O", "D", "R", "E", "S">>,
     ENDMDL |-> <<"E", "N", "D", "M", "D", "L">>,
     TER |-> <<"T", "E", "R", " ", " ", " ">>,
     END |-> <<"E", "N", "D", " ", " ", " ">>]

Unrecognised ==
    LexErr(PDBError("GeneralWarning", "Could not recognise tag.",
                    "not supported right now", "line"))

lex_line(chars) ==
    IF Len(chars) > 6
    THEN LET tag == Slice(chars, 0, 6)
         IN  CASE tag = Tag.REMARK -> lex_remark(chars)
               [] tag = Tag.ATOM -> lex_atom(chars, FALSE)
               [] tag = Tag.ANISOU -> lex_anisou(chars)
               [] tag = Tag.HETATM -> lex_atom(chars, TRUE)
               [] tag = Tag.CRYST1 -> lex_cryst(chars)
               [] tag = Tag.SCALE1 -> lex_scale(chars, 0)
               [] tag = Tag.SCALE2 -> lex_scale(chars, 1)
               [] tag = Tag.SCALE3 -> lex_scale(chars, 2)
               [] tag = Tag.ORIGX1 -> lex_origx(chars, 0)
               [] tag = Tag.ORIGX2 -> lex_origx(chars, 1)
               [] tag = Tag.ORIGX3 -> lex_origx(chars, 2)
               [] tag = Tag.MTRIX1 -> lex_mtrix(chars, 0)
               [] tag = Tag.MTRIX2 -> lex_mtrix(chars, 1)
               [] tag = Tag.MTRIX3 -> lex_mtrix(chars, 2)
               [] tag = Tag.MODEL -> lex_model(chars)
               [] tag = Tag.MASTER -> lex_master(chars)
               [] tag = Tag.DBREF -> lex_dbref(chars)
               [] tag = Tag.SEQRES -> lex_seqres(chars)
               [] tag = Tag.SEQADV -> lex_seqadv(chars)
               [] tag = Tag.MODRES -> lex_modres(chars)
               [] tag = Tag.ENDMDL -> LexOk([tag |-> "EndModel"], <<>>)
               [] tag = Tag.TER -> LexOk([tag |-> "TER"], <<>>)
               [] tag = Tag.END -> LexOk([tag |-> "End"], <<>>)
               [] OTHER -> Unrecognised
    ELSE IF Len(chars) > 2
    THEN LET tag == Slice(chars, 0, 3)
         IN  CASE tag = <<"T", "E", "R">> -> LexOk([tag |-> "TER"], <<>>)
               [] tag = <<"E", "N", "D">> -> LexOk([tag |-> "End"], <<>>)
               [] OTHER -> Unrecognised
    ELSE IF chars # <<>> THEN Unrecognised
    ELSE LexOk([tag |-> "Empty"], <<>>)

-----------------------------------------------------------------------------
(* The structs the parser builds (crate::structs): atoms in residues in    *)
(* chains in models in a PDB.  A model keeps the chains filled by add_atom *)
(* apart from those filled by add_hetero_atom.                             *)

\* The characters a struct's constructor takes: the printable ones
ValidChar(c) == c # "\t"

ValidText(t) == \A i \in 1..Len(t) : ValidChar(t[i])

\* Atom::new: None on a disallowed character
AtomNew(serial_number, name, x, y, z, occ, b, element, charge) ==
    IF ValidText(name) /\ ValidText(element)
    THEN Some([serial_number |-> serial_number, name |-> name, x |-> x,
               y |-> y, z |-> z, occupancy |-> occ, b_factor |-> b,
               element |-> element, charge |-> charge, atf |-> None])
    ELSE None

\* Residue::new(number, name, None): None on a disallowed character
ResidueNew(number, name) ==
    IF ValidText(name)
    THEN Some([serial_number |-> number, id |-> name, atoms |-> <<>>,
               modification |-> None])
    ELSE None

ChainNew(id) == [id |-> id, residues |-> <<>>, database_reference |-> None]

ModelNew(serial_number) ==
    [serial_number |-> serial_number, chains |-> <<>>, hetero_chains |-> <<>>]

PDBNew ==
    [remarks |-> <<>>, models |-> <<>>, scale |-> None, origx |-> None,
     mtrix |-> <<>>, unit_cell |-> None, symmetry |-> None]

\* The index of the first TRUE of a sequence of flags, 0 without one
FirstIndex(flags) ==
    IF \E i \in 1..Len(flags) : flags[i]
    THEN CHOOSE i \in 1..Len(flags) :
           flags[i] /\ \A j \in 1..(i - 1) : ~flags[j]
    ELSE 0

InsertAt(s, i, x) == SubSeq(s, 1, i - 1) \o <<x>> \o SubSeq(s, i, Len(s))

\* A chain's residues are kept in ascending order of serial number: a new
\* residue goes in front of the first one with a greater serial number.
InsertSorted(residues, residue) ==
    LET i == FirstIndex([k \in 1..Len(residues) |->
                          residues[k].serial_number > residue.serial_number])
    IN  IF i = 0 THEN Append(residues, residue)
        ELSE InsertAt(residues, i, residue)

\* Chain::insert_residue
ChainInsertResidue(chain, residue) ==
    [chain EXCEPT !.residues = InsertSorted(@, residue)]

\* Chain::add_residue
ChainAddResidue(chain, residue) ==
    [chain EXCEPT !.residues = Append(@, residue)]

\* Chain::add_atom: into the residue of that serial number, made on demand
ChainAddAtom(chain, atom, residue_serial_number, residue_name) ==
    LET i == FirstIndex([k \in 1..Len(chain.residues) |->
                          chain.residues[k].serial_number
                            = residue_serial_number])
    IN  IF i # 0
        THEN [chain EXCEPT !.residues[i].atoms = Append(@, atom)]
        ELSE ChainInsertResidue(
               chain,
               [serial_number |-> residue_serial_number,
                id |-> residue_name, atoms |-> <<atom>>,
                modification |-> None])

\* The chain list with the atom added to the chain of that id, made on demand
ChainsAddAtom(chains, atom, chain_id, residue_serial_number, residue_name) ==
    LET i == FirstIndex([k \in 1..Len(chains) |-> chains[k].id = chain_id])
    IN  IF i # 0
        THEN [chains EXCEPT
                ![i] = ChainAddAtom(@, atom, residue_serial_number,
                                    residue_name)]
        ELSE Append(chains,
                    ChainAddAtom(ChainNew(chain_id), atom,
                                 residue_serial_number, residue_name))

\* Model::add_atom
ModelAddAtom(model, atom, chain_id, residue_serial_number, residue_name) ==
    [model EXCEPT
       !.chains = ChainsAddAtom(@, atom, chain_id, residue_serial_number,
                                residue_name)]

\* Model::add_hetero_atom
ModelAddHeteroAtom(model, atom, chain_id, serial_number, name) ==
    [model EXCEPT
       !.hetero_chains = ChainsAddAtom(@, atom, chain_id, serial_number, name)]

RECURSIVE Sum(_)
Sum(s) == IF s = <<>> THEN 0 ELSE Head(s) + Sum(Tail(s))

ChainAtomCount(chain) ==
    Sum([k \in 1..Len(chain.residues) |-> Len(chain.residues[k].atoms)])

\* Model::atom_count: the atoms added by add_atom
ModelAtomCount(model) ==
    Sum([k \in 1..Len(model.chains) |-> ChainAtomCount(model.chains[k])])

\* Model::total_atom_count: "Normal + Hetero"
ModelTotalAtomCount(model) ==
    ModelAtomCount(model)
    + Sum([k \in 1..Len(model.hetero_chains) |->
             ChainAtomCount(model.hetero_chains[k])])

\* PDB::total_atom_count
PDBTotalAtomCount(p) ==
    Sum([k \in 1..Len(p.models) |-> ModelTotalAtomCount(p.models[k])])

\* PDB::remark_count
PDBRemarkCount(p) == Len(p.remarks)

\* PDB::add_model
PDBAddModel(p, model) == [p EXCEPT !.models = Append(@, model)]

RECURSIVE Flatten(_)
Flatten(ss) == IF ss = <<>> THEN <<>> ELSE Head(ss) \o Flatten(Tail(ss))

\* The places <<list, chain, residue, atom>> of the atoms of one chain list,
\* chain by chain, residue by residue
ChainPaths(chains, list) ==
    Flatten([ci \in 1..Len(chains) |->
      Flatten([ri \in 1..Len(chains[ci].residues) |->
        [ai \in 1..Len(chains[ci].residues[ri].atoms) |->
           <<list, ci, ri, ai>>]])])

\* Model::all_atoms_mut: the atoms of the chains, then of the hetero chains
ModelAllAtoms(model) ==
    ChainPaths(model.chains, "chains")
    \o ChainPaths(model.hetero_chains, "hetero_chains")

AtomAt(model, path) ==
    IF path[1] = "chains"
    THEN model.chains[path[2]].residues[path[3]].atoms[path[4]]
    ELSE model.hetero_chains[path[2]].residues[path[3]].atoms[path[4]]

\* Atom::set_anisotropic_temperature_factors on the atom at that place
SetAtf(model, path, factors) ==
    IF path[1] = "chains"
    THEN [model EXCEPT
            !.chains[path[2]].residues[path[3]].atoms[path[4]].atf =
              Some(factors)]
    ELSE [model EXCEPT
            !.hetero_chains[path[2]].residues[path[3]].atoms[path[4]].atf =
              Some(factors)]

\* Scale::new, OrigX::new, MtriX::new: no row set yet
TransformNew == <<None, None, None>>

\* set_row(n, row)
SetRow(rows, n, row) == [rows EXCEPT ![n + 1] = Some(row)]

\* valid(): every row has been set
TransformValid(rows) == \A i \in 1..3 : rows[i].some

\* The space groups Symmetry::new knows
KnownSpaceGroups == {<<"P", " ", "1">>, <<"P", " ", "2">>}

\* Symmetry::new: None for a space group it does not know
SymmetryNew(spacegroup) ==
    IF Trim(spacegroup) \in KnownSpaceGroups THEN Some(Trim(spacegroup))
    ELSE None

\* DatabaseReference::new with SequencePosition::from_tuple on both ranges
DatabaseReferenceNew(database, local_pos, db_pos) ==
    [database |-> database,
     pdb_position |-> [start |-> local_pos[1], start_insert |-> local_pos[2],
                       end |-> local_pos[3], end_insert |-> local_pos[4]],
     database_position |-> [start |-> db_pos[1], start_insert |-> db_pos[2],
                            end |-> db_pos[3], end_insert |-> db_pos[4]],
     differences |-> <<>>]

\* SequenceDifference::new
SequenceDifferenceNew(residue, database_residue, comment) ==
    [residue |-> residue, database_residue |-> database_residue,
     comment |-> comment]

-----------------------------------------------------------------------------
(* The strictness gate (crate::StrictnessLevel, PDBError::fails): the      *)
(* level names the lowest severity that fails the parse.  An unrecognised  *)
(* tag is tolerated by every level and a breaking error by none.           *)

Rank(lvl) ==
    CASE lvl = "GeneralWarning" -> 1 [] lvl = "LooseWarning" -> 2
      [] lvl = "StrictWarning" -> 3 [] lvl = "InvalidatingError" -> 4
      [] lvl = "BreakingError" -> 5

StrictnessLevels == ErrorLevels \ {"GeneralWarning"}

\* PDBError::fails
Fails(error, lvl) == Rank(error.level) >= Rank(lvl)

-----------------------------------------------------------------------------
(* Input lines *)

\* Text in a field of width w: flush right, flush left
RJ(t, w) == Blank(w - Len(t)) \o t

Pad(t, w) == t \o Blank(w - Len(t))

\* The first n characters of a line
Cut(l, n) == SubSeq(l, 1, n)

ALA == <<"A", "L", "A">>

GLY == <<"G", "L", "Y">>

SER == <<"S", "E", "R">>

HOH == <<"H", "O", "H">>

\* A residue name with a character no constructor takes
BadName == <<"A", "\t", "A">>

Num0 == <<"0">>

Num1 == <<"1">>

Num2 == <<"2">>

Num3 == <<"3">>

Num4 == <<"4">>

Num5 == <<"5">>

Dec == <<"1", ".", "5">>

NoNum == <<"x">>

\* An ATOM or HETATM line of 80 characters: y and z are 0.0, occupancy 1.0,
\* b-factor 0.0, element C, no segment id and no charge
AtomLine(tag, serial, name, resname, chain, resseq, x) ==
    tag \o <<" ">> \o RJ(serial, 4) \o <<" ">> \o Pad(name, 4) \o <<" ">>
    \o resname \o <<" ", chain>> \o RJ(resseq, 4) \o Blank(4) \o RJ(x, 8)
    \o RJ(<<"0", ".", "0">>, 8) \o RJ(<<"0", ".", "0">>, 8)
    \o RJ(<<"1", ".", "0">>, 6) \o RJ(<<"0", ".", "0">>, 6) \o Blank(10)
    \o <<" ", "C">> \o Blank(2)

ModelLine(number) == Tag.MODEL \o RJ(number, 8)

RemarkLine(number, text) ==
    Tag.REMARK \o <<" ">> \o RJ(number, 3) \o <<" ">> \o text

\* A MASTER line of 70 characters; the counts parse does not look at are 0
MasterLine(num_remark, num_empty, num_xform, num_coord) ==
    Tag.MASTER \o Blank(4) \o RJ(num_remark, 5) \o RJ(num_empty, 5)
    \o Flatten([k \in 1..5 |-> RJ(Num0, 5)]) \o RJ(num_xform, 5)
    \o RJ(num_coord, 5) \o Flatten([k \in 1..3 |-> RJ(Num0, 5)])

\* An ORIGXn, SCALEn or MTRIXn line of 55 characters (ser is blank but for
\* MTRIXn)
TransformLine(tag, ser, a, b, c, d) ==
    tag \o <<" ">> \o RJ(ser, 3) \o RJ(a, 10) \o RJ(b, 10) \o RJ(c, 10)
    \o Blank(5) \o RJ(d, 10)

\* A CRYST1 line of 70 characters
CrystLine(a, angle, spacegroup, z) ==
    Tag.CRYST1 \o RJ(a, 9) \o RJ(a, 9) \o RJ(a, 9) \o RJ(angle, 7)
    \o RJ(angle, 7) \o RJ(angle, 7) \o <<" ">> \o Pad(spacegroup, 11)
    \o RJ(z, 4)

\* A SEQRES line: every code is followed by a blank
SeqresLine(ser_num, chain, num_res, codes) ==
    Tag.SEQRES \o <<" ">> \o RJ(ser_num, 3) \o <<" ", chain, " ">>
    \o RJ(num_res, 4) \o Blank(2)
    \o Flatten([k \in 1..Len(codes) |-> codes[k] \o <<" ">>])

\* A DBREF line of 68 characters
DbrefLine(chain, seq_begin, seq_end, db_begin, db_end) ==
    Tag.DBREF \o <<" ", "1", "A", "B", "C", " ", chain, " ">>
    \o RJ(seq_begin, 4) \o Blank(2) \o RJ(seq_end, 4) \o Blank(2)
    \o Pad(<<"U", "N", "P">>, 6) \o <<" ">> \o Pad(<<"P", "1">>, 8) \o <<" ">>
    \o Pad(<<"X">>, 12) \o <<" ">> \o RJ(db_begin, 5) \o Blank(2)
    \o RJ(db_end, 5) \o <<" ">>

\* A SEQADV line of 49 characters and its comment
SeqadvLine(resname, chain, seq_num, db_resname, db_seq_num, comment) ==
    Tag.SEQADV \o <<" ", "1", "A", "B", "C", " ">> \o resname
    \o <<" ", chain, " ">> \o RJ(seq_num, 4) \o Blank(2)
    \o Pad(<<"U", "N", "P">>, 4) \o <<" ">> \o Pad(<<"P", "1">>, 9)
    \o <<" ">> \o Pad(db_resname, 3) \o <<" ">> \o RJ(db_seq_num, 5)
    \o <<" ">> \o comment

\* A MODRES line of 29 characters and its comment
ModresLine(resname, chain, seq_num, std_name, comment) ==
    Tag.MODRES \o <<" ", "1", "A", "B", "C", " ">> \o resname
    \o <<" ", chain, " ">> \o RJ(seq_num, 4) \o Blank(2) \o std_name
    \o Blank(2) \o comment

\* A line with a tag that lex_line does not know
UnknownLine == <<"F", "O", "O", "B", "A", "R", " ", "1">>

EndLine == <<"E", "N", "D">>

AtomA1 == Cut(AtomLine(Tag.ATOM, Num1, <<"N">>, ALA, "A", Num1, Dec), 54)

HetA2 == Cut(AtomLine(Tag.HETATM, Num2, <<"O">>, HOH, "A", Num2, Dec), 54)

AtomA3 == Cut(AtomLine(Tag.ATOM, Num3, <<"N">>, SER, "A", Num3, Dec), 54)

\* An atom of a GLY at the place of AtomA3
AtomA3G == Cut(AtomLine(Tag.ATOM, Num3, <<"N">>, GLY, "A", Num3, Dec), 54)

\* An atom whose name holds a character Atom::new does not take
AtomBadName ==
    Cut(AtomLine(Tag.ATOM, Num1, <<"N", "\t">>, ALA, "A", Num1, Dec), 54)

AtomFull == AtomLine(Tag.ATOM, Num1, <<"N">>, ALA, "A", Num1, Dec)

HetFull == AtomLine(Tag.HETATM, Num2, <<"O">>, HOH, "A", Num2, Dec)

\* The ATOM and HETATM lines of every length from the tag alone to 54
AtomLengthLines ==
    {Cut(AtomFull, n) : n \in 6..54} \cup {Cut(HetFull, n) : n \in 6..54}

CrystGood == CrystLine(Dec, Dec, <<"P", " ", "1">>, Num1)

\* A CRYST1 line with a space group Symmetry::new does not know
CrystBad == CrystLine(Dec, Dec, <<"X">>, Num1)

SeqresA == SeqresLine(Num1, "A", Num3, <<ALA, GLY, SER>>)

\* A SEQRES line with a code Residue::new does not take
SeqresBadCode == SeqresLine(Num1, "A", Num2, <<ALA, BadName>>)

\* The lines that reach a constructor
ConstructionLines == {AtomA1, AtomBadName, CrystGood, CrystBad, SeqresBadCode}

\* Local residues 2 to 4 are the database's 2 to 4
DbrefA == DbrefLine("A", Num2, Num4, Num2, Num4)

SeqresLines == {AtomA1, AtomA3, AtomA3G, SeqresA, DbrefA}

\* Local residues 1 to 3 are the database's 1 to 3
DbrefA1 == DbrefLine("A", Num1, Num3, Num1, Num3)

\* A local range that ends in front of its start
DbrefBack == DbrefLine("A", Num2, Num1, Num2, Num1)

\* A residue 0 of chain A that the database does not have
SeqadvFront == SeqadvLine(ALA, "A", Num0, <<>>, <<>>, <<"x">>)

\* A residue 1 of chain A that is a GLY in the database
SeqadvDb == SeqadvLine(ALA, "A", Num1, GLY, Num1, <<"x">>)

\* A difference of chain B
SeqadvB == SeqadvLine(ALA, "B", Num1, GLY, Num1, <<"x">>)

OffsetLines ==
    {AtomA1, SeqresA, DbrefA, DbrefA1, DbrefBack, SeqadvFront, SeqadvDb,
     SeqadvB}

\* Residue 2 of chain A, a GLY, is a modified one
ModresGly2 == ModresLine(GLY, "A", Num2, GLY, <<"x">>)

ModresAla1 == ModresLine(ALA, "A", Num1, ALA, <<"y">>)

\* A modified residue of a chain that is not there
ModresB == ModresLine(ALA, "B", Num1, ALA, <<"x">>)

\* Residue 1 of chain A under a name it does not have
ModresWrongName == ModresLine(GLY, "A", Num1, GLY, <<"x">>)

\* A standard name that Residue::set_modification does not take
ModresBadName == ModresLine(ALA, "A", Num1, BadName, <<"x">>)

ModresLines ==
    {AtomA1, AtomA3, SeqresA, ModresGly2, ModresAla1, ModresB,
     ModresWrongName, ModresBadName}

\* An ANISOU line of 70 characters with the six factors alike
AnisouLine(serial, name, resname, chain, resseq, u) ==
    Tag.ANISOU \o <<" ">> \o RJ(serial, 4) \o <<" ">> \o Pad(name, 4)
    \o <<" ">> \o resname \o <<" ", chain>> \o RJ(resseq, 4) \o Blank(2)
    \o Flatten([k \in 1..6 |-> RJ(u, 7)])

\* An atom with the serial number of AtomA1 in residue 2 of chain A
AtomS1R2 == Cut(AtomLine(Tag.ATOM, Num1, <<"C">>, GLY, "A", Num2, Dec), 54)

\* A hetero atom with the serial number of AtomA1
HetS1 == Cut(AtomLine(Tag.HETATM, Num1, <<"O">>, HOH, "A", Num2, Dec), 54)

Anisou1 == AnisouLine(Num1, <<"N">>, ALA, "A", Num1, Num2)

\* Factors for a serial number that no atom line has
Anisou5 == AnisouLine(Num5, <<"N">>, ALA, "A", Num5, Num3)

AnisouLines ==
    {AtomA1, AtomS1R2, HetS1, AtomA3, Anisou1, Anisou5, ModelLine(Num1)}

\* An ATOM or HETATM line of 80 characters with occupancy 0.5, b-factor 1.5,
\* segment id SEG1, element C and charge 1-
WideAtomLine(tag) ==
    Cut(AtomLine(tag, Num1, <<"N">>, ALA, "A", Num1, Dec), 54)
    \o RJ(<<"0", ".", "5">>, 6) \o RJ(Dec, 6) \o Blank(6)
    \o <<"S", "E", "G", "1", " ", "C", "1", "-">>

\* The ATOM lines of every length from 54 to 80, and HETATM lines
WideAtomLines ==
    {Cut(WideAtomLine(Tag.ATOM), n) : n \in 54..80}
    \cup {Cut(WideAtomLine(Tag.HETATM), n) : n \in {60, 79, 80}}

\* A SEQRES line of 71 characters with thirteen codes
Seqres13 == SeqresLine(Num1, "A", Num3, [k \in 1..13 |-> ALA])

\* SEQRES lines with no code, with codes followed by a blank, with a line
\* end right after the last code or inside it, and with a fourteenth code
SeqresCodeLines ==
    {SeqresLine(Num1, "A", Num0, <<>>),
     SeqresA, Cut(SeqresA, 30), Cut(SeqresA, 29), Cut(SeqresA, 26),
     Seqres13, Cut(Seqres13, 70),
     SeqresLine(Num1, "A", Num3, [k \in 1..14 |-> ALA])}

OrigxLine(tag) == TransformLine(tag, <<>>, Dec, Dec, Dec, Dec)

\* A row of the operator with that serial number, all four numbers alike
MtrixLine(tag, ser, a) == TransformLine(tag, ser, a, a, a, a)

\* The rows of ORIGX, SCALE and two MTRIX operators; a row that comes twice
\* comes with other numbers, and one MTRIX row has the `given` flag
TransformLines ==
    {OrigxLine(Tag.ORIGX1), OrigxLine(Tag.ORIGX2),
     TransformLine(Tag.ORIGX1, <<>>, Num2, Num2, Num2, Num2),
     OrigxLine(Tag.SCALE1), OrigxLine(Tag.SCALE3),
     MtrixLine(Tag.MTRIX1, Num1, Dec), MtrixLine(Tag.MTRIX1, Num1, Num2),
     MtrixLine(Tag.MTRIX2, Num1, Dec) \o Blank(4) \o <<"1">>,
     MtrixLine(Tag.MTRIX1, Num2, Dec)}

Master0 == MasterLine(Num0, Num0, Num0, Num0)

Master1 == MasterLine(Num1, Num1, Num3, Num1)

MasterLines ==
    {OrigxLine(Tag.ORIGX1), OrigxLine(Tag.ORIGX2), OrigxLine(Tag.ORIGX3),
     RemarkLine(Num1, <<"x">>), AtomA1, Master0, Master1}

\* For every record kind but the atoms, a line one character short of the
\* last column its lexer reads; two whole REMARK lines
ShortLines ==
    {Cut(RemarkLine(Num1, <<"x">>), 9), Cut(Anisou1, 69), Cut(CrystGood, 54),
     Cut(OrigxLine(Tag.SCALE1), 54), Cut(OrigxLine(Tag.ORIGX1), 54),
     Cut(MtrixLine(Tag.MTRIX1, Num1, Dec), 54), Cut(Master0, 69),
     Cut(DbrefA, 67), Cut(SeqresA, 16), Cut(SeqadvDb, 48),
     Cut(ModresAla1, 28),
     RemarkLine(Num1, <<"x">>), RemarkLine(Num2, <<"y">>)}

\* A remark text of 71 characters, one more than lex_remark takes
LongText == [k \in 1..71 |-> "x"]

\* Lines with numeric fields that are numbers, that are not, and that are
\* blank
NumberLines ==
    {RemarkLine(NoNum, <<"x">>),
     RemarkLine(Num1, LongText),
     RemarkLine(NoNum, LongText),
     ModelLine(NoNum),
     AtomFull,
     Cut(AtomLine(Tag.ATOM, NoNum, <<"N">>, ALA, "A", Num1, NoNum), 54),
     Cut(AtomLine(Tag.HETATM, Num1, <<"N">>, ALA, "A", <<>>, Dec), 66),
     MasterLine(NoNum, Num0, NoNum, Num0),
     SeqresLine(NoNum, "A", Num1, <<ALA>>),
     CrystLine(NoNum, Dec, <<"P", " ", "1">>, Num1)}

\* The lines of the general specification
Lines ==
    {UnknownLine, AtomA1, HetA2,
     Cut(AtomA1, 30),
     ModelLine(NoNum),
     RemarkLine(<<"6">>, <<"x">>),
     MasterLine(Num0, Num0, Num0, Num1)}

-----------------------------------------------------------------------------
(* parse: the loop.  Every action below is one pass of the loop body on    *)
(* the line l, whose result r is lex_line(l).                              *)

\* The longest input, in lines
MaxLines == 4

NoResult == [kind |-> "None"]

Ok(p, errs) == [kind |-> "Ok", pdb |-> p, errors |-> errs]

Err(errs) == [kind |-> "Err", errors |-> errs]

Init ==
    /\ level \in StrictnessLevels
    /\ pc = "scan"
    /\ linenumber = 0
    /\ line = <<>>
    /\ errors = <<>>
    /\ pdb = PDBNew
    /\ current_model = ModelNew(0)
    /\ sequence = <<>>
    /\ database_references = <<>>
    /\ modifications = <<>>
    /\ result = NoResult
    /\ panicked = "none"

\* The mutant: the read failure is added to the diagnostics found so far.
ReadFail_keeps_errors ==
    /\ pc = "scan"
    /\ linenumber < MaxLines
    /\ linenumber' = linenumber + 1
    /\ result' = Err(Append(errors,
                            PDBError("BreakingError", "Could read line",
                                     "could not read line", "show")))
    /\ pc' = "read_error"
    /\ UNCHANGED <<level, line, errors, pdb, current_model, sequence,
                   database_references, modifications, panicked>>

\* read_line is Err: the only return inside the loop
ReadFail ==
    /\ pc = "scan"
    /\ linenumber < MaxLines
    /\ linenumber' = linenumber + 1
    /\ result' = Err(<<PDBError("BreakingError", "Could read line",
                                "could not read line", "show")>>)
    /\ pc' = "read_error"
    /\ UNCHANGED <<level, line, errors, pdb, current_model, sequence,
                   database_references, modifications, panicked>>

\* read_line is Ok(l)
ReadLine(l) ==
    /\ pc = "scan"
    /\ linenumber < MaxLines
    /\ linenumber' = linenumber + 1
    /\ line' = l
    /\ UNCHANGED <<level, result>>

\* lex_line(l) is Ok((item, line_errors)) with an item of that kind
Lexes(r, tag) == r.kind = "Ok" /\ r.item.tag = tag

\* A panic unwinds parse: nothing is returned.
Panic(cause) ==
    /\ pc' = "panic"
    /\ panicked' = cause
    /\ UNCHANGED <<errors, pdb, current_model, sequence, database_references,
                   modifications>>

\* The arm ends and the loop goes on with the next line.
Continue == pc' = "scan" /\ panicked' = panicked

LexPanics(l, r) ==
    /\ ReadLine(l)
    /\ r.kind = "Panic"
    /\ Panic(r.cause)

\* The mutant: a line that does not lex ends parse at once.
LexFails_returns(l, r) ==
    /\ pc = "scan"
    /\ linenumber < MaxLines
    /\ linenumber' = linenumber + 1
    /\ line' = l
    /\ r.kind = "Err"
    /\ errors' = Append(errors, r.error)
    /\ result' = Err(Append(errors, r.error))
    /\ pc' = "done"
    /\ UNCHANGED <<level, pdb, current_model, sequence, database_references,
                   modifications, panicked>>

\* The mutant: a line that does not lex also empties the accumulator.
LexFails_resets(l, r) ==
    /\ ReadLine(l)
    /\ r.kind = "Err"
    /\ errors' = Append(errors, r.error)
    /\ current_model' = ModelNew(0)
    /\ Continue
    /\ UNCHANGED <<pdb, sequence, database_references, modifications>>

\* else { errors.push(line_result.unwrap_err()) }
LexFails(l, r) ==
    /\ ReadLine(l)
    /\ r.kind = "Err"
    /\ errors' = Append(errors, r.error)
    /\ Continue
    /\ UNCHANGED <<pdb, current_model, sequence, database_references,
                   modifications>>

OnRemark(l, r) ==
    /\ ReadLine(l)
    /\ Lexes(r, "Remark")
    /\ errors' = errors \o r.errors
    /\ pdb' = [pdb EXCEPT
                 !.remarks = Append(@, <<r.item.number,
                                         r.item.text>>)]
    /\ Continue
    /\ UNCHANGED <<current_model, sequence, database_references,
                   modifications>>

OnAtom(l, r) ==
    /\ ReadLine(l)
    /\ Lexes(r, "Atom")
    /\ LET i == r.item
           atom == AtomNew(i.serial_number, i.atom_name, i.x, i.y, i.z,
                           i.occupancy, i.b_factor, i.element, i.charge)
       IN  IF ~atom.some
           THEN Panic("Invalid characters in atom creation")
           ELSE /\ errors' = errors \o r.errors
                /\ current_model' =
                     IF i.hetero
                     THEN ModelAddHeteroAtom(current_model, atom.v, i.chain_id,
                                             i.residue_serial_number,
                                             i.residue_name)
                     ELSE ModelAddAtom(current_model, atom.v, i.chain_id,
                                       i.residue_serial_number,
                                       i.residue_name)
                /\ Continue
                /\ UNCHANGED <<pdb, sequence, database_references,
                               modifications>>

\* for atom in current_model.all_atoms_mut().rev(): the last one of that
\* serial number; without one, a line on standard output only
OnAnisou(l, r) ==
    /\ ReadLine(l)
    /\ Lexes(r, "Anisou")
    /\ errors' = errors \o r.errors
    /\ LET paths == ModelAllAtoms(current_model)
           hits == {k \in 1..Len(paths) :
                      AtomAt(current_model, paths[k]).serial_number
                        = r.item.serial_number}
       IN  current_model' =
             IF hits = {} THEN current_model
             ELSE SetAtf(current_model,
                         paths[CHOOSE k \in hits : \A j \in hits : j <= k],
                         r.item.factors)
    /\ Continue
    /\ UNCHANGED <<pdb, sequence, database_references, modifications>>

\* The mutant: the accumulator is appended whatever it holds.
OnModel_always_append(l, r) ==
    /\ ReadLine(l)
    /\ Lexes(r, "Model")
    /\ errors' = errors \o r.errors
    /\ pdb' = PDBAddModel(pdb, current_model)
    /\ current_model' = ModelNew(r.item.number)
    /\ Continue
    /\ UNCHANGED <<sequence, database_references, modifications>>

OnModel(l, r) ==
    /\ ReadLine(l)
    /\ Lexes(r, "Model")
    /\ errors' = errors \o r.errors
    /\ pdb' = IF ModelAtomCount(current_model) > 0
              THEN PDBAddModel(pdb, current_model)
              ELSE pdb
    /\ current_model' = ModelNew(r.item.number)
    /\ Continue
    /\ UNCHANGED <<sequence, database_references, modifications>>

OnScale(l, r) ==
    /\ ReadLine(l)
    /\ Lexes(r, "Scale")
    /\ errors' = errors \o r.errors
    /\ pdb' = [pdb EXCEPT
                 !.scale = Some(SetRow(IF @.some THEN @.v ELSE TransformNew,
                                       r.item.n, r.item.row))]
    /\ Continue
    /\ UNCHANGED <<current_model, sequence, database_references,
                   modifications>>

OnOrigX(l, r) ==
    /\ ReadLine(l)
    /\ Lexes(r, "OrigX")
    /\ errors' = errors \o r.errors
    /\ pdb' = [pdb EXCEPT
                 !.origx = Some(SetRow(IF @.some THEN @.v ELSE TransformNew,
                                       r.item.n, r.item.row))]
    /\ Continue
    /\ UNCHANGED <<current_model, sequence, database_references,
                   modifications>>

\* The mutant: every MTRIX row makes a new operator.
OnMtriX_always_adds(l, r) ==
    /\ ReadLine(l)
    /\ Lexes(r, "MtriX")
    /\ errors' = errors \o r.errors
    /\ pdb' = [pdb EXCEPT
                 !.mtrix = Append(@, [serial_number |-> r.item.ser,
                                      rows |-> SetRow(TransformNew, r.item.n,
                                                      r.item.row),
                                      contained |-> r.item.given])]
    /\ Continue
    /\ UNCHANGED <<current_model, sequence, database_references,
                   modifications>>

OnMtriX(l, r) ==
    /\ ReadLine(l)
    /\ Lexes(r, "MtriX")
    /\ errors' = errors \o r.errors
    /\ LET i == r.item
           k == FirstIndex([m \in 1..Len(pdb.mtrix) |->
                            pdb.mtrix[m].serial_number = i.ser])
       IN  pdb' =
             IF k # 0
             THEN [pdb EXCEPT
                     !.mtrix[k].rows = SetRow(@, i.n, i.row),
                     !.mtrix[k].contained = i.given]
             ELSE [pdb EXCEPT
                     !.mtrix = Append(@, [serial_number |-> i.ser,
                                          rows |-> SetRow(TransformNew, i.n,
                                                          i.row),
                                          contained |-> i.given])]
    /\ Continue
    /\ UNCHANGED <<current_model, sequence, database_references,
                   modifications>>

OnCrystal(l, r) ==
    /\ ReadLine(l)
    /\ Lexes(r, "Crystal")
    /\ LET i == r.item
           symmetry == SymmetryNew(i.spacegroup)
       IN  IF ~symmetry.some
           THEN Panic("Invalid space group")
           ELSE /\ errors' = errors \o r.errors
                /\ pdb' = [pdb EXCEPT
                             !.unit_cell = Some(<<i.a, i.b, i.c, i.alpha,
                                                  i.beta, i.gamma>>),
                             !.symmetry = symmetry]
                /\ Continue
                /\ UNCHANGED <<current_model, sequence, database_references,
                               modifications>>

OnSeqres(l, r) ==
    /\ ReadLine(l)
    /\ Lexes(r, "Seqres")
    /\ errors' = errors \o r.errors
    /\ LET i == r.item
           row == <<i.ser_num, i.num_res, i.values>>
       IN  sequence' =
             [c \in DOMAIN sequence \cup {i.chain_id} |->
                IF c \in DOMAIN sequence
                THEN IF c = i.chain_id THEN Append(sequence[c], row)
                     ELSE sequence[c]
                ELSE <<row>>]
    /\ Continue
    /\ UNCHANGED <<pdb, current_model, database_references, modifications>>

OnDbref(l, r) ==
    /\ ReadLine(l)
    /\ Lexes(r, "Dbref")
    /\ errors' = errors \o r.errors
    /\ LET i == r.item
       IN  database_references' =
             Append(database_references,
                    <<i.chain_id,
                      DatabaseReferenceNew(<<i.db, i.db_acc, i.db_id>>,
                                           i.local_pos, i.db_pos)>>)
    /\ Continue
    /\ UNCHANGED <<pdb, current_model, sequence, modifications>>

\* The mutant: a difference goes in front of the differences staged so far.
OnSeqadv_prepends(l, r) ==
    /\ ReadLine(l)
    /\ Lexes(r, "Seqadv")
    /\ LET i == r.item
           k == FirstIndex([a \in 1..Len(database_references) |->
                            database_references[a][1] = i.chain_id])
       IN  IF k # 0
           THEN /\ database_references' =
                     [database_references EXCEPT
                        ![k][2].differences =
                          <<SequenceDifferenceNew(
                              <<i.res_name, i.seq_num>>, i.db_pos,
                              i.comment)>> \o @]
                /\ errors' = errors \o r.errors
           ELSE /\ errors' =
                     Append(errors \o r.errors,
                            PDBError("StrictWarning",
                                     "Sequence Difference Database not found",
                                     "DBREF before SEQADV", "show"))
                /\ UNCHANGED database_references
    /\ Continue
    /\ UNCHANGED <<pdb, current_model, sequence, modifications>>

OnSeqadv(l, r) ==
    /\ ReadLine(l)
    /\ Lexes(r, "Seqadv")
    /\ LET i == r.item
           k == FirstIndex([a \in 1..Len(database_references) |->
                            database_references[a][1] = i.chain_id])
       IN  IF k # 0
           THEN /\ database_references' =
                     [database_references EXCEPT
                        ![k][2].differences =
                          Append(@, SequenceDifferenceNew(
                                      <<i.res_name, i.seq_num>>,
                                      IF i.db_pos.some THEN Some(i.db_pos.v)
                                      ELSE None,
                                      i.comment))]
                /\ errors' = errors \o r.errors
           ELSE /\ errors' =
                     Append(errors \o r.errors,
                            PDBError("StrictWarning",
                                     "Sequence Difference Database not found",
                                     "DBREF before SEQADV", "show"))
                /\ UNCHANGED database_references
    /\ Continue
    /\ UNCHANGED <<pdb, current_model, sequence, modifications>>

OnModres(l, r) ==
    /\ ReadLine(l)
    /\ Lexes(r, "Modres")
    /\ errors' = errors \o r.errors
    /\ modifications' =
         Append(modifications,
                [tag |-> r.item.tag, res_name |-> r.item.res_name,
                 chain_id |-> r.item.chain_id, seq_num |-> r.item.seq_num,
                 std_name |-> r.item.std_name, comment |-> r.item.comment])
    /\ Continue
    /\ UNCHANGED <<pdb, current_model, sequence, database_references>>

\* The mutant: the four checks as one chain of else-ifs, so that the first
\* that fails is the only one reported.
MasterChecksum_first_only(i, p) ==
    LET valid == {k \in 1..Len(p.mtrix) : TransformValid(p.mtrix[k].rows)}
        xform == (IF p.origx.some /\ TransformValid(p.origx.v) THEN 3 ELSE 0)
                 + (IF p.scale.some /\ TransformValid(p.scale.v) THEN 3 ELSE 0)
                 + 3 * Cardinality(valid)
    IN  IF i.num_remark # PDBRemarkCount(p)
        THEN <<PDBError("StrictWarning", "MASTER checksum failed",
                        "number of REMARKS", "show")>>
        ELSE IF i.num_empty # 0
        THEN <<PDBError("LooseWarning", "MASTER checksum failed",
                        "empty checksum number", "show")>>
        ELSE IF i.num_xform # xform
        THEN <<PDBError("StrictWarning", "MASTER checksum failed",
                        "number of coordinate transformation records",
                        "show")>>
        ELSE IF i.num_coord # PDBTotalAtomCount(p)
        THEN <<PDBError("StrictWarning", "MASTER checksum failed",
                        "number of Atoms", "show")>>
        ELSE <<>>

\* The four checks of a MASTER record against the PDB p
MasterChecksum(i, p) ==
    LET mtrix_valid == {k \in 1..Len(p.mtrix) : TransformValid(p.mtrix[k].rows)}
        xform == (IF p.origx.some /\ TransformValid(p.origx.v) THEN 3 ELSE 0)
                 + (IF p.scale.some /\ TransformValid(p.scale.v) THEN 3 ELSE 0)
                 + 3 * Cardinality(mtrix_valid)
    IN  (IF i.num_remark # PDBRemarkCount(p)
         THEN <<PDBError("StrictWarning", "MASTER checksum failed",
                         "number of REMARKS", "show")>>
         ELSE <<>>)
        \o (IF i.num_empty # 0
            THEN <<PDBError("LooseWarning", "MASTER checksum failed",
                            "empty checksum number", "show")>>
            ELSE <<>>)
        \o (IF i.num_xform # xform
            THEN <<PDBError("StrictWarning", "MASTER checksum failed",
                            "number of coordinate transformation records",
                            "show")>>
            ELSE <<>>)
        \o (IF i.num_coord # PDBTotalAtomCount(p)
            THEN <<PDBError("StrictWarning", "MASTER checksum failed",
                            "number of Atoms", "show")>>
            ELSE <<>>)

OnMaster(l, r) ==
    /\ ReadLine(l)
    /\ Lexes(r, "Master")
    /\ LET flush == ModelTotalAtomCount(current_model) > 0
           p == IF flush THEN PDBAddModel(pdb, current_model) ELSE pdb
       IN  /\ pdb' = p
           /\ current_model' = IF flush THEN ModelNew(0) ELSE current_model
           /\ errors' = errors \o r.errors
                        \o MasterChecksum(r.item, p)
    /\ Continue
    /\ UNCHANGED <<sequence, database_references, modifications>>

\* _ => (): ENDMDL, TER, END and the empty line
OnOther(l, r) ==
    /\ ReadLine(l)
    /\ r.kind = "Ok"
    /\ r.item.tag \in {"EndModel", "TER", "End", "Empty"}
    /\ errors' = errors \o r.errors
    /\ Continue
    /\ UNCHANGED <<pdb, current_model, sequence, database_references,
                   modifications>>

-----------------------------------------------------------------------------
(* parse: after the loop *)

\* PDB::chains_mut(): the places <<model, chain>> of the chains, model by
\* model
PDBChains(p) ==
    Flatten([mi \in 1..Len(p.models) |->
               [ci \in 1..Len(p.models[mi].chains) |-> <<mi, ci>>]])

\* pdb.chains_mut().find(|c| c.id() == chain_id): its place, <<>> for None
FindChain(p, chain_id) ==
    LET places == PDBChains(p)
        k == FirstIndex([a \in 1..Len(places) |->
                          p.models[places[a][1]].chains[places[a][2]].id
                            = chain_id])
    IN  IF k = 0 THEN <<>> ELSE places[k]

ChainOf(p, at) == p.models[at[1]].chains[at[2]]

SetChain(p, at, chain) == [p EXCEPT !.models[at[1]].chains[at[2]] = chain]

\* for (chain_id, reference) in database_references { ... }
RECURSIVE AttachReferences(_, _)
AttachReferences(p, references) ==
    IF references = <<>> THEN p
    ELSE LET at == FindChain(p, Head(references)[1])
         IN  AttachReferences(
               IF at = <<>> THEN p
               ELSE [p EXCEPT
                       !.models[at[1]].chains[at[2]].database_reference =
                         Some(Head(references)[2])],
               Tail(references))

\* The end of the lines: the last accumulator is pushed if it holds an atom,
\* and the database references are set on their chains.
EndOfStream ==
    /\ pc = "scan"
    /\ pdb' = AttachReferences(
                IF ModelTotalAtomCount(current_model) > 0
                THEN PDBAddModel(pdb, current_model)
                ELSE pdb,
                database_references)
    /\ pc' = "validate_seqres"
    /\ UNCHANGED <<level, linenumber, line, errors, current_model, sequence,
                   database_references, modifications, result, panicked>>

-----------------------------------------------------------------------------
(* validate_seqres.  A usize is kept as an integer: a value below zero     *)
(* stands for the value that wraps to it, 2^64 more, which a build without *)
(* overflow checks computes; a build with them panics instead of wrapping. *)

\* The mutant: no expected position is in front of an observed residue.
ULess_never(a, b) == FALSE

\* a < b on usize
ULess(a, b) == IF (a < 0) = (b < 0) THEN a < b ELSE b < 0

SeqresWarning(long) ==
    PDBError("StrictWarning", "SEQRES residue total invalid", long, "show")

\* for (ser_num, res_num, seq) in data: the row at place k, `serial` being k
\* and `residues` the total taken so far: [errors, residues]
RECURSIVE SeqresRows(_, _, _)
SeqresRows(data, k, residues) ==
    IF k > Len(data) THEN [errors |-> <<>>, residues |-> residues]
    ELSE
      LET row == data[k]
          rest == SeqresRows(data, k + 1,
                             IF residues = 0 THEN row[2] ELSE residues)
      IN  [errors |->
             (IF k # row[1]
              THEN <<PDBError("StrictWarning", "SEQRES serial number invalid",
                              "does not follow sequentially", "show")>>
              ELSE <<>>)
             \o (IF residues # 0 /\ residues # row[2]
                 THEN <<SeqresWarning("does not match the first row")>>
                 ELSE <<>>)
             \o rest.errors,
           residues |-> rest.residues]

\* The differences that move the offset: no database residue, and in front
\* of the start of the database range
DifferencesInFront(db_ref) ==
    Cardinality({k \in 1..Len(db_ref.differences) :
                   /\ ~db_ref.differences[k].database_residue.some
                   /\ db_ref.differences[k].residue[2]
                        < db_ref.pdb_position.start})

\* let mut offset = 1; if let Some(db_ref) = ... { offset = start; offset -= 1
\* for each difference in front }
SeqresOffset(chain) ==
    IF chain.database_reference.some
    THEN chain.database_reference.v.pdb_position.start
         - DifferencesInFront(chain.database_reference.v)
    ELSE 1

\* Where the offset arithmetic overflows: `offset -= 1` at zero, and
\* `end - offset` with end below offset
OffsetOverflows(chain) ==
    /\ chain.database_reference.some
    /\ \/ SeqresOffset(chain) < 0
       \/ chain.database_reference.v.pdb_position.end < SeqresOffset(chain)

\* Residue::id()
ResidueId(residue) == residue.id

\* One pass through the body of `for (raw_index, seq) in
\* chain_sequence.iter().enumerate()`; chain_res has yielded the residues of
\* `copy` before place `next`.  The branch taken, the chain and the place
\* of the residue cursor after the pass, the diagnostics it pushes, and the
\* panic it ends in
MergeIteration(chain, copy, chain_sequence, offset, raw_index, next) ==
    LET seq == chain_sequence[raw_index + 1]
        index == raw_index + offset
        new == ResidueNew(index, seq)
        Pass(branch, c, e, nxt) ==
          [branch |-> branch, chain |-> c, errors |-> e, next |-> nxt,
           panic |-> "none"]
        Stop(branch, cause) ==
          [branch |-> branch, chain |-> chain, errors |-> <<>>,
           next |-> next, panic |-> cause]
    IN  IF next <= Len(copy.residues)
        THEN LET n == copy.residues[next]
             IN  IF index = n.serial_number
                 THEN IF seq # ResidueId(n)
                      THEN IF index < 0 \/ index >= Len(chain_sequence)
                           THEN Stop("equal", "index out of bounds")
                           ELSE Pass("equal", chain,
                                     <<PDBError("StrictWarning",
                                                "SEQRES residue invalid",
                                                "does not match the residue",
                                                "show")>>,
                                     next + 1)
                      ELSE Pass("equal", chain, <<>>, next + 1)
                 ELSE IF ULess(index, n.serial_number)
                 THEN IF ~new.some
                      THEN Stop("less",
                                "Invalid characters in Residue generations")
                      ELSE Pass("less", ChainInsertResidue(chain, new.v),
                                <<>>, next)
                 ELSE Pass("greater", chain,
                           <<PDBError("StrictWarning", "Chain residue invalid",
                                      "not sequentially increasing", "show")>>,
                           next)
        ELSE IF ~new.some
             THEN Stop("none", "Invalid characters in Residue generations")
             ELSE Pass("none", ChainAddResidue(chain, new.v), <<>>, next)

RECURSIVE SeqresMerge(_, _, _, _, _, _)

\* The mutant: the residue cursor moves on after a pass that found the
\* residue in front of the expected position.
MergeAfter_greater_advances(it, copy, chain_sequence, offset, raw_index) ==
    IF it.panic # "none"
    THEN [chain |-> it.chain, errors |-> <<>>, panic |-> it.panic]
    ELSE [SeqresMerge(it.chain, copy, chain_sequence, offset, raw_index + 1,
                      IF it.branch = "greater" THEN it.next + 1 ELSE it.next)
            EXCEPT !.errors = it.errors \o @]

\* The mutant: the loop ends once chain_res has yielded its last residue.
MergeAfter_stops_at_none(it, copy, chain_sequence, offset, raw_index) ==
    IF it.panic # "none"
    THEN [chain |-> it.chain, errors |-> <<>>, panic |-> it.panic]
    ELSE IF it.next > Len(copy.residues)
    THEN [chain |-> it.chain, errors |-> it.errors, panic |-> "none"]
    ELSE [SeqresMerge(it.chain, copy, chain_sequence, offset, raw_index + 1,
                      it.next)
            EXCEPT !.errors = it.errors \o @]

\* The loop after the pass `it` at raw_index: it ends at a panic, and
\* otherwise goes on with the next declared code
MergeAfter(it, copy, chain_sequence, offset, raw_index) ==
    IF it.panic # "none"
    THEN [chain |-> it.chain, errors |-> <<>>, panic |-> it.panic]
    ELSE [SeqresMerge(it.chain, copy, chain_sequence, offset, raw_index + 1,
                      it.next)
            EXCEPT !.errors = it.errors \o @]

\* for (raw_index, seq) in chain_sequence.iter().enumerate(): the passes
\* from raw_index on.  [chain, errors, panic]
SeqresMerge(chain, copy, chain_sequence, offset, raw_index, next) ==
    IF raw_index >= Len(chain_sequence)
    THEN [chain |-> chain, errors |-> <<>>, panic |-> "none"]
    ELSE MergeAfter(MergeIteration(chain, copy, chain_sequence, offset,
                                   raw_index, next),
                    copy, chain_sequence, offset, raw_index)

\* The body of the loop of validate_seqres for one chain that was found:
\* [chain, errors, panic]
SeqresChain(chain, data, overflow_checks) ==
    LET rows == SeqresRows(data, 1, 0)
        chain_sequence == Flatten([k \in 1..Len(data) |-> data[k][3]])
        offset == SeqresOffset(chain)
        front ==
          rows.errors
          \o (IF Len(chain_sequence) # rows.residues
              THEN <<SeqresWarning("does not match the seqres records")>>
              ELSE <<>>)
          \o (IF /\ chain.database_reference.some
                 /\ chain.database_reference.v.pdb_position.end - offset + 1
                      # rows.residues
              THEN <<SeqresWarning("does not match the dbref record")>>
              ELSE <<>>)
        merge == SeqresMerge(chain, chain, chain_sequence, offset, 0, 1)
    IN  IF overflow_checks /\ OffsetOverflows(chain)
        THEN [chain |-> chain, errors |-> <<>>,
              panic |-> "attempt to subtract with overflow"]
        ELSE IF merge.panic # "none" THEN merge
        ELSE [chain |-> merge.chain,
              errors |->
                front \o merge.errors
                \o (IF Len(chain_sequence) # Len(merge.chain.residues)
                    THEN <<SeqresWarning("does not match the chain")>>
                    ELSE <<>>),
              panic |-> "none"]

\* for (chain_id, data) in sequence, the chain ids in the order `order`, one
\* of the orders a HashMap may iterate in: [pdb, errors, panic]
RECURSIVE validate_seqres(_, _, _, _)
validate_seqres(p, seq, order, overflow_checks) ==
    IF order = <<>> THEN [pdb |-> p, errors |-> <<>>, panic |-> "none"]
    ELSE
      LET chain_id == Head(order)
          at == FindChain(p, chain_id)
      IN  IF at = <<>>
          THEN validate_seqres(p, seq, Tail(order), overflow_checks)
          ELSE
            LET one == SeqresChain(ChainOf(p, at), seq[chain_id],
                                   overflow_checks)
                rest == validate_seqres(SetChain(p, at, one.chain), seq,
                                        Tail(order), overflow_checks)
            IN  IF one.panic # "none"
                THEN [pdb |-> p, errors |-> <<>>, panic |-> one.panic]
                ELSE [rest EXCEPT !.errors = one.errors \o @]

\* The orders in which the keys of a HashMap may come
Orders(keys) ==
    {o \in [1..Cardinality(keys) -> keys] :
       \A i, j \in 1..Cardinality(keys) : i # j => o[i] # o[j]}

\* errors.extend(validate_seqres(&mut pdb, sequence, &context))
ValidateSeqres ==
    /\ pc = "validate_seqres"
    /\ \E order \in Orders(DOMAIN sequence), overflow_checks \in BOOLEAN :
         LET r == validate_seqres(pdb, sequence, order, overflow_checks)
         IN  IF r.panic # "none"
             THEN /\ pc' = "panic"
                  /\ panicked' = r.panic
                  /\ UNCHANGED <<pdb, errors>>
             ELSE /\ pc' = "add_modifications"
                  /\ pdb' = r.pdb
                  /\ errors' = errors \o r.errors
                  /\ UNCHANGED panicked
    /\ UNCHANGED <<level, linenumber, line, current_model, sequence,
                   database_references, modifications, result>>

\* Residue::set_modification: Err on a disallowed character
SetModification(residue, std_name, comment) ==
    IF ValidText(std_name) /\ ValidText(comment)
    THEN [ok |-> TRUE,
          residue |-> [residue EXCEPT
                         !.modification = Some(<<std_name, comment>>)]]
    ELSE [ok |-> FALSE]

ModresError(long) ==
    PDBError("InvalidatingError", "Modified residue could not be found", long,
             "modres")

\* The mutant: the residue is looked up by its serial number alone.
RECURSIVE add_modifications_by_serial(_, _)
add_modifications_by_serial(p, mods) ==
    IF mods = <<>> THEN [pdb |-> p, errors |-> <<>>]
    ELSE
      LET item == Head(mods)
          at == FindChain(p, item.chain_id)
          r == IF at = <<>> THEN 0
               ELSE FirstIndex([k \in 1..Len(ChainOf(p, at).residues) |->
                                  ChainOf(p, at).residues[k].serial_number
                                    = item.seq_num])
          set == SetModification(ChainOf(p, at).residues[r], item.std_name,
                                 item.comment)
          one ==
            IF at = <<>>
            THEN [pdb |-> p, errors |-> <<ModresError("chain not found")>>]
            ELSE IF r = 0
            THEN [pdb |-> p, errors |-> <<ModresError("residue not found")>>]
            ELSE IF ~set.ok
            THEN [pdb |-> p,
                  errors |-> <<PDBError("InvalidatingError",
                                        "Invalid characters", "modification",
                                        "modres")>>]
            ELSE [pdb |-> [p EXCEPT
                             !.models[at[1]].chains[at[2]].residues[r] =
                               set.residue],
                  errors |-> <<>>]
          rest == add_modifications_by_serial(one.pdb, Tail(mods))
      IN  [rest EXCEPT !.errors = one.errors \o @]

\* for (context, item) in modifications: [pdb, errors]
RECURSIVE add_modifications(_, _)
add_modifications(p, mods) ==
    IF mods = <<>> THEN [pdb |-> p, errors |-> <<>>]
    ELSE
      LET item == Head(mods)
          at == FindChain(p, item.chain_id)
          r == IF at = <<>> THEN 0
               ELSE FirstIndex([k \in 1..Len(ChainOf(p, at).residues) |->
                                  /\ ChainOf(p, at).residues[k].id
                                       = item.res_name
                                  /\ ChainOf(p, at).residues[k].serial_number
                                       = item.seq_num])
          set == SetModification(ChainOf(p, at).residues[r], item.std_name,
                                 item.comment)
          one ==
            IF at = <<>>
            THEN [pdb |-> p, errors |-> <<ModresError("chain not found")>>]
            ELSE IF r = 0
            THEN [pdb |-> p, errors |-> <<ModresError("residue not found")>>]
            ELSE IF ~set.ok
            THEN [pdb |-> p,
                  errors |-> <<PDBError("InvalidatingError",
                                        "Invalid characters", "modification",
                                        "modres")>>]
            ELSE [pdb |-> [p EXCEPT
                             !.models[at[1]].chains[at[2]].residues[r] =
                               set.residue],
                  errors |-> <<>>]
          rest == add_modifications(one.pdb, Tail(mods))
      IN  [rest EXCEPT !.errors = one.errors \o @]

\* errors.extend(add_modifications(&mut pdb, modifications))
AddModifications ==
    /\ pc = "add_modifications"
    /\ LET r == add_modifications(pdb, modifications)
       IN  /\ pdb' = r.pdb
           /\ errors' = errors \o r.errors
    /\ pc' = "validate"
    /\ UNCHANGED <<level, linenumber, line, current_model, sequence,
                   database_references, modifications, result, panicked>>

\* What crate::validate::validate may answer for a PDB: nothing, or a warning
ValidateOutcomes ==
    {<<>>, <<PDBError("LooseWarning", "validate", "validate", "show")>>}

\* errors.extend(validate(&pdb))
Validate ==
    /\ pc = "validate"
    /\ \E found \in ValidateOutcomes : errors' = errors \o found
    /\ pc' = "decide"
    /\ UNCHANGED <<level, linenumber, line, pdb, current_model, sequence,
                   database_references, modifications, result, panicked>>

\* The mutant: only the first diagnostic is looked at.
Decide_first_only ==
    /\ pc = "decide"
    /\ result' = IF errors # <<>> /\ Fails(errors[1], level)
                 THEN Err(errors)
                 ELSE Ok(pdb, errors)
    /\ pc' = "done"
    /\ UNCHANGED <<level, linenumber, line, errors, pdb, current_model,
                   sequence, database_references, modifications, panicked>>

\* for error in &errors { if error.fails(level) { return Err(errors) } }
\* Ok((pdb, errors))
Decide ==
    /\ pc = "decide"
    /\ result' = IF \E k \in 1..Len(errors) : Fails(errors[k], level)
                 THEN Err(errors)
                 ELSE Ok(pdb, errors)
    /\ pc' = "done"
    /\ UNCHANGED <<level, linenumber, line, errors, pdb, current_model,
                   sequence, database_references, modifications, panicked>>

-----------------------------------------------------------------------------
(* Specifications *)

\* The loop body on the line l: let line_result = lex_line(line), and the
\* match on it
Scan(l, line_result) ==
    \/ LexFails(l, line_result)
    \/ OnRemark(l, line_result)
    \/ OnAtom(l, line_result)
    \/ OnModel(l, line_result)
    \/ OnMaster(l, line_result)

AfterLoop ==
    \/ EndOfStream
    \/ ValidateSeqres
    \/ AddModifications
    \/ Validate
    \/ Decide

Next ==
    \/ ReadFail
    \/ \E l \in Lines : Scan(l, lex_line(l))
    \/ AfterLoop

Spec == Init /\ [][Next]_vars

\* parse on ATOM and HETATM lines of every length
ScanAtomLength(l, line_result) ==
    \/ LexFails(l, line_result)
    \/ OnAtom(l, line_result)

NextAtomLength ==
    \/ \E l \in AtomLengthLines : ScanAtomLength(l, lex_line(l))
    \/ AfterLoop

SpecAtomLength == Init /\ [][NextAtomLength]_vars

\* parse on lines that reach a constructor
ScanConstruction(l, line_result) ==
    \/ OnAtom(l, line_result)
    \/ OnCrystal(l, line_result)
    \/ OnSeqres(l, line_result)

NextConstruction ==
    \/ \E l \in ConstructionLines : ScanConstruction(l, lex_line(l))
    \/ AfterLoop

SpecConstruction == Init /\ [][NextConstruction]_vars

\* parse on lines with numeric fields
ScanNumbers(l, line_result) ==
    \/ LexFails(l, line_result)
    \/ OnRemark(l, line_result)
    \/ OnModel(l, line_result)
    \/ OnAtom(l, line_result)
    \/ OnMaster(l, line_result)
    \/ OnSeqres(l, line_result)
    \/ OnCrystal(l, line_result)

NextNumbers ==
    \/ \E l \in NumberLines : ScanNumbers(l, lex_line(l))
    \/ AfterLoop

SpecNumbers == Init /\ [][NextNumbers]_vars

\* parse on the atoms, the SEQRES, the DBREF and the SEQADV of a chain
ScanOffset(l, line_result) ==
    \/ OnAtom(l, line_result)
    \/ OnSeqres(l, line_result)
    \/ OnDbref(l, line_result)
    \/ OnSeqadv(l, line_result)

NextOffset ==
    \/ \E l \in OffsetLines : ScanOffset(l, lex_line(l))
    \/ AfterLoop

SpecOffset == Init /\ [][NextOffset]_vars

\* parse on the atoms, the SEQRES and the MODRES of a chain
ScanModres(l, line_result) ==
    \/ OnAtom(l, line_result)
    \/ OnSeqres(l, line_result)
    \/ OnModres(l, line_result)

NextModres ==
    \/ \E l \in ModresLines : ScanModres(l, lex_line(l))
    \/ AfterLoop

SpecModres == Init /\ [][NextModres]_vars

\* parse on atoms, ANISOU records and MODEL records
ScanAnisou(l, line_result) ==
    \/ OnAtom(l, line_result)
    \/ OnAnisou(l, line_result)
    \/ OnModel(l, line_result)

NextAnisou ==
    \/ \E l \in AnisouLines : ScanAnisou(l, lex_line(l))
    \/ AfterLoop

SpecAnisou == Init /\ [][NextAnisou]_vars

\* parse on ATOM and HETATM lines of 54 characters and more
ScanAtomWidth(l, line_result) ==
    \/ LexPanics(l, line_result)
    \/ OnAtom(l, line_result)

NextAtomWidth ==
    \/ \E l \in WideAtomLines : ScanAtomWidth(l, lex_line(l))
    \/ AfterLoop

SpecAtomWidth == Init /\ [][NextAtomWidth]_vars

\* parse on ORIGXn, SCALEn and MTRIXn records
ScanTransform(l, line_result) ==
    \/ OnScale(l, line_result)
    \/ OnOrigX(l, line_result)
    \/ OnMtriX(l, line_result)

NextTransform ==
    \/ \E l \in TransformLines : ScanTransform(l, lex_line(l))
    \/ AfterLoop

SpecTransform == Init /\ [][NextTransform]_vars

\* parse on SEQRES lines that end at, in and after a code
ScanSeqresCodes(l, line_result) == OnSeqres(l, line_result)

NextSeqresCodes ==
    \/ \E l \in SeqresCodeLines : ScanSeqresCodes(l, lex_line(l))
    \/ AfterLoop

SpecSeqresCodes == Init /\ [][NextSeqresCodes]_vars

\* parse on lines that end before their record does
ScanShort(l, line_result) ==
    \/ LexPanics(l, line_result)
    \/ OnRemark(l, line_result)

NextShort ==
    \/ \E l \in ShortLines : ScanShort(l, lex_line(l))
    \/ AfterLoop

SpecShort == Init /\ [][NextShort]_vars

\* parse on remarks, atoms, ORIGX rows and MASTER records
ScanMaster(l, line_result) ==
    \/ OnRemark(l, line_result)
    \/ OnAtom(l, line_result)
    \/ OnOrigX(l, line_result)
    \/ OnMaster(l, line_result)

NextMaster ==
    \/ \E l \in MasterLines : ScanMaster(l, lex_line(l))
    \/ AfterLoop

SpecMaster == Init /\ [][NextMaster]_vars

\* parse on the atoms, the SEQRES and the DBREF of one chain
ScanSeqres(l, line_result) ==
    \/ OnAtom(l, line_result)
    \/ OnSeqres(l, line_result)
    \/ OnDbref(l, line_result)

NextSeqres ==
    \/ \E l \in SeqresLines : ScanSeqres(l, lex_line(l))
    \/ AfterLoop

SpecSeqres == Init /\ [][NextSeqres]_vars

-----------------------------------------------------------------------------
(* Properties *)

IsPrefix(s, t) == Len(s) <= Len(t) /\ SubSeq(t, 1, Len(s)) = s

\* The diagnostics lex_line gives for a line
LineDiagnostics(r) ==
    CASE r.kind = "Err" -> <<r.error>>
      [] r.kind = "Ok" -> r.errors
      [] OTHER -> <<>>

\* A step of the loop that took a line and lexed it
LineStep == linenumber' = linenumber + 1 /\ pc' # "read_error"

\* The order in which parse goes through its parts
PassOrder ==
    {<<"scan", "validate_seqres">>, <<"validate_seqres", "add_modifications">>,
     <<"add_modifications", "validate">>, <<"validate", "decide">>,
     <<"decide", "done">>, <<"scan", "read_error">>, <<"scan", "panic">>,
     <<"validate_seqres", "panic">>}

C1_Step ==
    /\ pc' # pc => <<pc, pc'>> \in PassOrder
    /\ IsPrefix(errors, errors')
    /\ LineStep /\ pc' = "scan" =>
         IsPrefix(errors \o LineDiagnostics(lex_line(line')), errors')
    /\ result' # result =>
         /\ result = NoResult
         /\ \/ pc' = "read_error"
            \/ /\ pc = "decide" /\ pc' = "done"
               /\ errors' = errors /\ pdb' = pdb
               /\ result'.errors = errors
               /\ \/ result'.kind = "Ok" /\ result'.pdb = pdb
                  \/ result'.kind = "Err"
                     /\ DOMAIN result' = {"kind", "errors"}
    /\ pc' = "done" => result' # NoResult

\* C1: parse decides once, in the step from "decide" that follows the scan,
\* the flush, the attachment of references, validate_seqres, add_modifications
\* and validate in that order; no line's diagnostics end the scan; the
\* diagnostics only grow, every line's are appended, and the result carries
\* all of them, with the model when it is Ok and without one when it is Err.
C1_DecisionAfterAllPasses == [][C1_Step]_vars

\* parse failed on a list that opens with a breaking diagnostic of the scan
\* and closes with the one validate found, a model having been built
C1_Witness ==
    /\ pc = "done" /\ result.kind = "Err"
    /\ Len(result.errors) >= 3
    /\ result.errors[1].level = "BreakingError"
    /\ result.errors[Len(result.errors)].short = "validate"
    /\ pdb.models # <<>>

AllOfLevel(errs, lvl) == \A i \in 1..Len(errs) : errs[i].level = lvl

\* C2: at the end of parse, under each of the four thresholds: diagnostics
\* that are all GeneralWarning give Ok; one BreakingError gives Err;
\* diagnostics that are all StrictWarning give Err exactly under the
\* thresholds LooseWarning and StrictWarning; and the result is Err exactly
\* when some diagnostic of the list fails the level.
C2_StrictnessGate ==
    pc = "done" =>
      /\ AllOfLevel(errors, "GeneralWarning") => result.kind = "Ok"
      /\ (\E i \in 1..Len(errors) : errors[i].level = "BreakingError")
           => result.kind = "Err"
      /\ errors # <<>> /\ AllOfLevel(errors, "StrictWarning") =>
           (result.kind = "Err" <=> level \in {"LooseWarning", "StrictWarning"})
      /\ result.kind = "Err" <=>
           \E i \in 1..Len(errors) : Fails(errors[i], level)

\* Strict warnings only, under a threshold above them: Ok
C2_Witness ==
    /\ pc = "done" /\ level = "InvalidatingError"
    /\ Len(errors) >= 2 /\ AllOfLevel(errors, "StrictWarning")
    /\ result.kind = "Ok"

C3_Step ==
    /\ pc # "read_error"
    /\ pc' = "read_error" =>
         /\ pc = "scan"
         /\ linenumber' = linenumber + 1
         /\ result'.kind = "Err"
         /\ DOMAIN result' = {"kind", "errors"}
         /\ Len(result'.errors) = 1
         /\ result'.errors[1].level = "BreakingError"
         /\ result'.errors[1].short = "Could read line"

\* C3: the step in which a line cannot be read ends parse with Err of one
\* BreakingError, the read failure, and nothing of the model or of the
\* diagnostics found before; nothing happens after it, under every level.
C3_ReadFailureIsImmediate == [][C3_Step]_vars

\* The read failed after lines that left diagnostics and atoms, under the
\* most tolerant level
C3_Witness ==
    /\ pc = "read_error" /\ level = "BreakingError"
    /\ Len(errors) >= 2 /\ ModelTotalAtomCount(current_model) > 0
    /\ Len(result.errors) = 1

C4_Step ==
    LineStep /\ lex_line(line').kind = "Err" =>
      /\ errors' = Append(errors, lex_line(line').error)
      /\ line' = UnknownLine => errors'[Len(errors')].level = "GeneralWarning"
      /\ pdb' = pdb /\ current_model' = current_model
      /\ sequence' = sequence
      /\ database_references' = database_references
      /\ modifications' = modifications
      /\ pc' = "scan" /\ result' = result

\* C4: the step on a line for which lex_line returns an error appends that
\* one diagnostic (a GeneralWarning for the unrecognised tag), changes
\* neither the model, the accumulator nor the three staged collections, and
\* leaves parse in the loop, so what follows is what follows without it.
C4_LexErrorIsIsolated == [][C4_Step]_vars

\* Two atoms are in the accumulator, the later one after a line with an
\* unrecognised tag
C4_Witness ==
    /\ pc = "scan" /\ line = AtomA1 /\ linenumber = 3
    /\ Len(errors) = 1 /\ errors[1].short = "Could not recognise tag."
    /\ ModelAtomCount(current_model) = 2

AtomTags == {Tag.ATOM, Tag.HETATM}

C5_Step ==
    LineStep /\ Slice(line', 0, 6) \in AtomTags /\ Len(line') < 54 =>
      /\ Len(errors') = Len(errors) + 1
      /\ IsPrefix(errors, errors')
      /\ errors'[Len(errors')].level = "BreakingError"
      /\ lex_line(line').kind = "Err"
      /\ current_model' = current_model
      /\ pdb' = pdb

\* C5: the step on an ATOM or HETATM line of any length from the six
\* characters of the tag to 53 appends exactly one diagnostic, a
\* BreakingError, gets no record from lex_line, and leaves the accumulator
\* and the model as they were.
C5_ShortAtomLine == [][C5_Step]_vars

ConstructionPanics ==
    {"Invalid characters in atom creation", "Invalid space group",
     "Invalid characters in Residue generations"}

\* C6: parse never stops at a constructor that rejects its input: not at
\* Atom::new on an ATOM or HETATM record, not at Symmetry::new on the space
\* group of a CRYST1 record, not at Residue::new on a residue that
\* validate_seqres makes.
C6_ConstructionFailureIsRecorded ==
    pc = "panic" => panicked \notin ConstructionPanics

\* The numeric fields a lexer reads from a line, by the tag and the length
\* of the line: the type, the first column and the column after the last
NumericFields(chars) ==
    CASE Slice(chars, 0, 6) = Tag.REMARK -> {<<"usize", 7, 10>>}
      [] Slice(chars, 0, 6) = Tag.MODEL -> {<<"usize", 6, Len(chars)>>}
      [] Slice(chars, 0, 6) \in AtomTags /\ Len(chars) >= 54 ->
           {<<"usize", 7, 11>>, <<"usize", 22, 26>>, <<"f64", 30, 38>>,
            <<"f64", 38, 46>>, <<"f64", 46, 54>>}
           \cup (IF Len(chars) >= 60 THEN {<<"f64", 54, 60>>} ELSE {})
           \cup (IF Len(chars) >= 66 THEN {<<"f64", 60, 66>>} ELSE {})
      [] Slice(chars, 0, 6) = Tag.MASTER ->
           {<<"usize", 10 + 5 * k, 15 + 5 * k>> : k \in 0..11}
      [] Slice(chars, 0, 6) = Tag.SEQRES ->
           {<<"usize", 7, 10>>, <<"usize", 13, 17>>}
      [] Slice(chars, 0, 6) = Tag.CRYST1 ->
           {<<"f64", 6, 15>>, <<"f64", 15, 24>>, <<"f64", 24, 33>>,
            <<"f64", 33, 40>>, <<"f64", 40, 47>>, <<"f64", 47, 54>>}
           \cup (IF Len(chars) > 66 THEN {<<"usize", 66, Len(chars)>>}
                 ELSE {})
      [] OTHER -> {}

\* The characters of the field, without whitespace, are a number of type T
IsNumber(chars, f) ==
    FromStr(f[1], StripWhitespace(Slice(chars, f[2], f[3]))).ok

\* How many of the diagnostics say that the field is not a number
NotNumbers(errs, f) ==
    Cardinality({k \in DOMAIN errs :
                   /\ errs[k].level = "InvalidatingError"
                   /\ errs[k].short = "Not a number"
                   /\ errs[k].context = <<f[2], f[3] - f[2]>>})

\* The fields of the line that are not numbers
BadFields(chars) == {f \in NumericFields(chars) : ~IsNumber(chars, f)}

\* A record with one number holds zero when its field is not a number
ZeroForBad(chars, r) ==
    Slice(chars, 0, 6) \in {Tag.REMARK, Tag.MODEL} /\ BadFields(chars) # {}
      => r.item.number = 0

C7_Step ==
    LineStep /\ BadFields(line') # {} =>
      /\ lex_line(line').kind = "Ok"
      /\ \A f \in NumericFields(line') :
           NotNumbers(lex_line(line').errors, f) =
             IF f \in BadFields(line') THEN 1 ELSE 0
      /\ ZeroForBad(line', lex_line(line'))
      /\ IsPrefix(errors \o lex_line(line').errors, errors')

\* C7: a line with a numeric field that is not a number of its type once
\* whitespace is removed (a blank field included) still gives its record;
\* each such field gives exactly one InvalidatingError for its columns and
\* each field that is a number gives none, so k bad fields give k
\* diagnostics; the value read from a bad field is zero; parse records
\* these diagnostics.
C7_BadNumberIsZero == [][C7_Step]_vars

NoEmptyModel(models) ==
    \A k \in 1..Len(models) : ModelTotalAtomCount(models[k]) > 0

C8_Step ==
    pdb'.models # pdb.models =>
      /\ ModelTotalAtomCount(current_model) > 0
      /\ pdb'.models = Append(pdb.models, current_model)

\* C8: every model stored in the PDB, during the scan and in the result,
\* holds at least one atom; the models change only by the accumulator being
\* appended, and only when it holds an atom.
C8_NoEmptyModel ==
    /\ [](NoEmptyModel(pdb.models)
          /\ (result.kind = "Ok" => NoEmptyModel(result.pdb.models)))
    /\ [][C8_Step]_vars

\* Two models were stored, one at a MODEL record and one at the end
C8_Witness ==
    /\ pc = "done" /\ result.kind = "Ok"
    /\ Len(result.pdb.models) = 2
    /\ linenumber = 3

\* How many of the diagnostics are of that level and about that count
Checksums(errs, lvl, long) ==
    Cardinality({k \in DOMAIN errs :
                   /\ errs[k].level = lvl
                   /\ errs[k].short = "MASTER checksum failed"
                   /\ errs[k].long = long})

\* A transform of which every row was read
FullyPopulated(rows) == \A i \in 1..3 : rows[i].some

\* The ORIGX, SCALE and MTRIX transforms of the PDB that are valid
ValidTransforms(p) ==
    (IF p.origx.some /\ FullyPopulated(p.origx.v) THEN 1 ELSE 0)
    + (IF p.scale.some /\ FullyPopulated(p.scale.v) THEN 1 ELSE 0)
    + Cardinality({k \in DOMAIN p.mtrix : FullyPopulated(p.mtrix[k].rows)})

\* The atoms of all the models of the PDB, counted one by one
AllAtoms(p) ==
    Sum([k \in 1..Len(p.models) |-> Len(ModelAllAtoms(p.models[k]))])

\* The diagnostics a step appends after those of the lexer
AfterLexer(r) ==
    SubSeq(errors', Len(errors) + Len(r.errors) + 1, Len(errors'))

Once(condition) == IF condition THEN 1 ELSE 0

C9_Checks(i, new) ==
    /\ Checksums(new, "StrictWarning", "number of REMARKS")
         = Once(i.num_remark # Len(pdb'.remarks))
    /\ Checksums(new, "LooseWarning", "empty checksum number")
         = Once(i.num_empty # 0)
    /\ Checksums(new, "StrictWarning",
                 "number of coordinate transformation records")
         = Once(i.num_xform # 3 * ValidTransforms(pdb'))
    /\ Checksums(new, "StrictWarning", "number of Atoms")
         = Once(i.num_coord # AllAtoms(pdb'))
    /\ Len(new) = Once(i.num_remark # Len(pdb'.remarks))
                  + Once(i.num_empty # 0)
                  + Once(i.num_xform # 3 * ValidTransforms(pdb'))
                  + Once(i.num_coord # AllAtoms(pdb'))

C9_Step ==
    LineStep /\ Slice(line', 0, 6) = Tag.MASTER =>
      /\ IF ModelTotalAtomCount(current_model) > 0
         THEN /\ pdb'.models = Append(pdb.models, current_model)
              /\ current_model' = ModelNew(0)
         ELSE pdb' = pdb /\ current_model' = current_model
      /\ IsPrefix(errors \o lex_line(line').errors, errors')
      /\ C9_Checks(lex_line(line').item, AfterLexer(lex_line(line')))

\* C9: the step on a MASTER record pushes the accumulator into the PDB if
\* it holds an atom, and then appends exactly one StrictWarning iff the
\* declared remark count is not the number of remarks stored, one
\* LooseWarning iff the must-be-zero field is not zero, one StrictWarning
\* iff the declared transform count is not three times the number of valid
\* ORIGX, SCALE and MTRIX transforms, and one StrictWarning iff the declared
\* atom count is not the number of atoms of all the models, the one just
\* pushed included; each of the four is there whatever the other three
\* give, and nothing else is appended.
C9_MasterChecksAreIndependent == [][C9_Step]_vars

\* A MASTER record that declares no remark and no atom came after a remark
\* and an atom: both warnings are there
C9_Witness ==
    /\ pc = "scan" /\ line = Master0
    /\ Len(pdb.remarks) = 1 /\ AllAtoms(pdb) = 1
    /\ Checksums(errors, "StrictWarning", "number of REMARKS") = 1
    /\ Checksums(errors, "StrictWarning", "number of Atoms") = 1

\* The codes the SEQRES rows of a chain declare, in the order of the rows
Declared(rows) == Flatten([k \in 1..Len(rows) |-> rows[k][3]])

\* The observed residues are at declared positions, under the declared
\* names
GapsOnly(chain, declared, offset) ==
    /\ offset >= 0
    /\ \A k \in DOMAIN chain.residues :
         /\ chain.residues[k].serial_number
              \in offset..(offset + Len(declared) - 1)
         /\ chain.residues[k].id
              = declared[chain.residues[k].serial_number - offset + 1]

\* The observed residue at a position, or the synthesized one
ResidueAtPosition(chain, position, code) ==
    IF \E k \in DOMAIN chain.residues :
         chain.residues[k].serial_number = position
    THEN chain.residues[CHOOSE k \in DOMAIN chain.residues :
                          chain.residues[k].serial_number = position]
    ELSE [serial_number |-> position, id |-> code, atoms |-> <<>>,
          modification |-> None]

\* The chain with every gap filled
GapsFilled(chain, declared, offset) ==
    [k \in 1..Len(declared) |->
       ResidueAtPosition(chain, offset + k - 1, declared[k])]

Ascending(residues) ==
    \A k \in 1..(Len(residues) - 1) :
      residues[k].serial_number < residues[k + 1].serial_number

\* No diagnostic of the merge about an identity or about the count of the
\* chain's residues
NoMergeWarning(errs) ==
    \A k \in DOMAIN errs :
      /\ errs[k].short
           \notin {"SEQRES residue invalid", "Chain residue invalid"}
      /\ errs[k].long # "does not match the chain"

\* What validate_seqres makes of the chain at that place
Reconciled(at, declared) ==
    /\ pc' = "add_modifications"
    /\ ChainOf(pdb', at).residues
         = GapsFilled(ChainOf(pdb, at), declared,
                      SeqresOffset(ChainOf(pdb, at)))
    /\ Len(ChainOf(pdb', at).residues) = Len(declared)
    /\ Ascending(ChainOf(pdb', at).residues)
    /\ IsPrefix(errors, errors')
    /\ NoMergeWarning(SubSeq(errors', Len(errors) + 1, Len(errors')))

C10_Chain(at, declared) ==
    /\ at # <<>>
    /\ GapsOnly(ChainOf(pdb, at), declared, SeqresOffset(ChainOf(pdb, at)))
    => Reconciled(at, declared)

C10_Step ==
    pc = "validate_seqres" /\ pc' # pc =>
      \A chain_id \in DOMAIN sequence :
        C10_Chain(FindChain(pdb, chain_id), Declared(sequence[chain_id]))

\* C10: validate_seqres, on a chain whose residues all lie at positions
\* offset..offset+n-1 of the n declared codes and bear the declared names,
\* leaves the chain with exactly n residues in strictly ascending order of
\* serial number: the observed residue where there is one, and otherwise a
\* residue with the position as serial number, the declared code and no
\* atoms; it appends no diagnostic about an identity or about the count of
\* the chain's residues.
C10_GapsAreFilled == [][C10_Step]_vars

\* Observed 1 ALA and 3 SER, declared ALA GLY SER: the chain is 1 ALA,
\* 2 GLY without atoms, 3 SER
C10_Witness ==
    /\ pc = "add_modifications" /\ errors = <<>>
    /\ FindChain(pdb, "A") # <<>>
    /\ LET residues == ChainOf(pdb, FindChain(pdb, "A")).residues
       IN  [k \in 1..Len(residues) |->
              <<residues[k].serial_number, residues[k].id,
                residues[k].atoms # <<>>>>]
             = <<<<1, ALA, TRUE>>, <<2, GLY, FALSE>>, <<3, SER, TRUE>>>>

\* The atoms held by the PDB and by the accumulator together
AtomsHeld(p, model) == AllAtoms(p) + Len(ModelAllAtoms(model))

\* A step of the loop on a line that lexes to an atom record
AtomStep ==
    /\ LineStep
    /\ lex_line(line').kind = "Ok"
    /\ lex_line(line').item.tag = "Atom"

C11_Step ==
    /\ LineStep /\ Slice(line', 0, 6) = Tag.MODEL /\ Len(line') > 6
       /\ Len(ModelAllAtoms(current_model)) > 0
       => pdb'.models = Append(pdb.models, current_model)
    /\ pc' = "scan"
       => AtomsHeld(pdb', current_model')
            = AtomsHeld(pdb, current_model) + Once(AtomStep)
    /\ pc = "scan" /\ pc' = "validate_seqres"
       => AllAtoms(pdb') = AtomsHeld(pdb, current_model)

\* C11: at a MODEL record an accumulator that holds an atom, normal or
\* hetero, is appended to the models before the new accumulator is started;
\* so through every step of the loop the atoms of the models and of the
\* accumulator together are those the ATOM and HETATM records inserted, one
\* more at each such record and as many at every other record, and the end
\* of the lines moves the accumulator's atoms into the models.
C11_NoAtomIsLost == [][C11_Step]_vars

RECURSIVE MergeTrace(_, _, _, _, _, _)

\* The pass `it` made with the cursors at raw_index and next, and the
\* passes after it
TraceAfter(it, chain, copy, chain_sequence, offset, raw_index, next) ==
    <<[raw_index |-> raw_index, next |-> next, chain |-> chain, pass |-> it]>>
    \o (IF it.panic # "none" THEN <<>>
        ELSE MergeTrace(it.chain, copy, chain_sequence, offset, raw_index + 1,
                        it.next))

\* The passes of the merge loop in the order it makes them, each with the
\* declared-sequence cursor, the residue cursor and the chain it starts from
MergeTrace(chain, copy, chain_sequence, offset, raw_index, next) ==
    IF raw_index >= Len(chain_sequence) THEN <<>>
    ELSE TraceAfter(MergeIteration(chain, copy, chain_sequence, offset,
                                   raw_index, next),
                    chain, copy, chain_sequence, offset, raw_index, next)

\* The passes validate_seqres makes for a chain and its SEQRES rows
TraceOf(chain, rows) ==
    MergeTrace(chain, chain, Declared(rows), SeqresOffset(chain), 0, 1)

\* The chains of the PDB that have SEQRES rows, by their ids
Reconcilable == {id \in DOMAIN sequence : FindChain(pdb, id) # <<>>}

ChainById(id) == ChainOf(pdb, FindChain(pdb, id))

\* The residue cursor of the pass is at a residue
AtResidue(chain, t) == t.next <= Len(chain.residues)

\* The position the pass expects, less the serial number of the residue at
\* the cursor
Ahead(chain, t) ==
    t.raw_index + SeqresOffset(chain) - chain.residues[t.next].serial_number

\* The pass is the last one made, or the next one is for the next declared
\* code
DeclaredAdvances(trace, k) ==
    k < Len(trace) => trace[k + 1].raw_index = trace[k].raw_index + 1

C12_Pass(chain, declared, trace, k) ==
    /\ AtResidue(chain, trace[k])
    /\ Ahead(chain, trace[k]) = 0
    /\ declared[trace[k].raw_index + 1] # chain.residues[trace[k].next].id
    => /\ trace[k].pass.panic = "none"
       /\ Len(trace[k].pass.errors) = 1
       /\ trace[k].pass.errors[1].level = "StrictWarning"
       /\ trace[k].pass.chain = trace[k].chain
       /\ trace[k].pass.next = trace[k].next + 1
       /\ DeclaredAdvances(trace, k)
       /\ k = Len(trace) => trace[k].raw_index + 1 = Len(declared)

C12_Chain(chain, declared, trace) ==
    \A k \in DOMAIN trace : C12_Pass(chain, declared, trace, k)

\* C12: in every pass of the merge in which the expected position is the
\* serial number of the residue at the cursor and the declared code is not
\* the residue's name, exactly one StrictWarning is pushed, the chain stays
\* as it is, both cursors move on by one and the loop goes on to the end of
\* the declared sequence, wherever the mismatch is, the last declared
\* position included.
C12_MismatchIsOneWarning ==
    pc = "validate_seqres" =>
      \A id \in Reconcilable :
        C12_Chain(ChainById(id), Declared(sequence[id]),
                  TraceOf(ChainById(id), sequence[id]))

\* The pass finds the residue at the cursor in front of the position it
\* expects
Greater(chain, t) == AtResidue(chain, t) /\ Ahead(chain, t) > 0

\* What the pass does in the greater case, but for the declared-sequence
\* cursor: one StrictWarning, the chain and the residue cursor as they were
C13_Pass(chain, t) ==
    Greater(chain, t) =>
      /\ t.pass.panic = "none"
      /\ Len(t.pass.errors) = 1
      /\ t.pass.errors[1].level = "StrictWarning"
      /\ t.pass.errors[1].short = "Chain residue invalid"
      /\ t.pass.chain = t.chain
      /\ t.pass.next = t.next

\* The declared-sequence cursor after a pass in the greater case is where
\* it was
DeclaredStays(chain, trace, k) ==
    Greater(chain, trace[k]) /\ k < Len(trace)
      => trace[k + 1].raw_index = trace[k].raw_index

C13_Original(chain, trace) ==
    \A k \in DOMAIN trace :
      C13_Pass(chain, trace[k]) /\ DeclaredStays(chain, trace, k)

\* C13 as claimed: in a pass of the merge in which the expected position is
\* greater than the serial number of the residue at the cursor, one
\* StrictWarning is pushed, the chain is not modified, and neither the
\* declared-sequence cursor nor the residue cursor advances.
C13_NeitherCursorAdvances ==
    pc = "validate_seqres" =>
      \A id \in Reconcilable :
        C13_Original(ChainById(id), TraceOf(ChainById(id), sequence[id]))

C13_Amended(chain, trace) ==
    \A k \in DOMAIN trace :
      /\ C13_Pass(chain, trace[k])
      /\ Greater(chain, trace[k]) => DeclaredAdvances(trace, k)

\* How many of the diagnostics have that short text
Shorts(errs, short) ==
    Cardinality({k \in DOMAIN errs : errs[k].short = short})

\* The passes of the trace that are in the greater case
GreaterPasses(chain, trace) ==
    Cardinality({k \in DOMAIN trace : Greater(chain, trace[k])})

\* The diagnostics the step appends
Appended == SubSeq(errors', Len(errors) + 1, Len(errors'))

C13_Step ==
    pc = "validate_seqres" /\ pc' = "add_modifications" =>
      \A id \in Reconcilable :
        /\ IsPrefix(errors, errors')
        /\ Reconcilable = {id} =>
             Shorts(Appended, "Chain residue invalid")
               = GreaterPasses(ChainById(id),
                               TraceOf(ChainById(id), sequence[id]))
        /\ Greater(ChainById(id), [raw_index |-> 0, next |-> 1]) =>
             ChainOf(pdb', FindChain(pdb, id)).residues
               = ChainById(id).residues

\* C13, amended: in a pass of the merge in which the expected position is
\* greater than the serial number of the residue at the cursor, one
\* StrictWarning is pushed, the chain is not modified and the residue
\* cursor does not advance; the declared-sequence cursor goes on to the
\* next declared code as after every pass.  So validate_seqres appends one
\* such warning for each pass in the greater case, and a chain whose first
\* residue is in front of the offset keeps its residues as they were.
C13_GreaterWarnsAndGoesOn ==
    /\ [](pc = "validate_seqres" =>
            \A id \in Reconcilable :
              C13_Amended(ChainById(id), TraceOf(ChainById(id), sequence[id])))
    /\ [][C13_Step]_vars

\* Residue 1 of a chain whose database reference starts at 2, with three
\* declared codes: a warning for each of them, and the chain as it was
C13_Witness ==
    /\ pc = "add_modifications"
    /\ FindChain(pdb, "A") # <<>>
    /\ ChainById("A").database_reference.some
    /\ Len(ChainById("A").residues) = 1
    /\ ChainById("A").residues[1].serial_number = 1
    /\ Shorts(errors, "Chain residue invalid") = 3

\* The residue validate_seqres makes for a declared position
Synthesized(position, code) ==
    [serial_number |-> position, id |-> code, atoms |-> <<>>,
     modification |-> None]

\* The chain after the last pass of the trace
AfterTrace(chain, trace) ==
    IF trace = <<>> THEN chain ELSE trace[Len(trace)].pass.chain

\* The diagnostics the passes of the trace push
TraceErrors(trace) == Flatten([k \in DOMAIN trace |-> trace[k].pass.errors])

\* The diagnostics about the count of the chain's residues
CountWarnings(errs) ==
    {k \in DOMAIN errs :
       /\ errs[k].level = "StrictWarning"
       /\ errs[k].short = "SEQRES residue total invalid"
       /\ errs[k].long = "does not match the chain"}

\* After the merge: as many diagnostics of the merge as its passes pushed,
\* and then the warning about the count, the last one, iff the declared
\* length is not the count of the chain's residues
C14_Final(declared, trace, after) ==
    /\ IsPrefix(errors, errors')
    /\ Shorts(Appended, "SEQRES residue invalid")
       + Shorts(Appended, "Chain residue invalid") = Len(TraceErrors(trace))
    /\ CountWarnings(Appended)
         = IF Len(declared) # Len(after.residues) THEN {Len(Appended)} ELSE {}

C14_FinalStep ==
    pc = "validate_seqres" /\ pc' = "add_modifications" =>
      \A id \in Reconcilable :
        Reconcilable = {id} =>
          /\ ChainOf(pdb', FindChain(pdb, id))
               = AfterTrace(ChainById(id), TraceOf(ChainById(id), sequence[id]))
          /\ C14_Final(Declared(sequence[id]),
                       TraceOf(ChainById(id), sequence[id]),
                       ChainOf(pdb', FindChain(pdb, id)))

\* The loop makes no pass once the residues are exhausted
C14_Stops(chain, trace) == \A k \in DOMAIN trace : AtResidue(chain, trace[k])

\* C14 as claimed: the merge loop stops when the declared sequence is
\* exhausted while residues remain, and when the residues are exhausted
\* while declared positions remain: no residue is added and no diagnostic
\* pushed for what remains, and the only diagnostic after it is the one
\* StrictWarning given iff the declared length is not the chain's count.
C14_LoopStopsAtExhaustion ==
    /\ [](pc = "validate_seqres" =>
            \A id \in Reconcilable :
              C14_Stops(ChainById(id), TraceOf(ChainById(id), sequence[id])))
    /\ [][C14_FinalStep]_vars

\* A pass made after the last residue appends the residue of the declared
\* position, or ends parse where Residue::new does not take the code
C14_Pass(chain, declared, trace, k) ==
    ~AtResidue(chain, trace[k]) =>
      IF ValidText(declared[trace[k].raw_index + 1])
      THEN /\ trace[k].pass.panic = "none"
           /\ trace[k].pass.errors = <<>>
           /\ trace[k].pass.chain.residues
                = Append(trace[k].chain.residues,
                         Synthesized(trace[k].raw_index + SeqresOffset(chain),
                                     declared[trace[k].raw_index + 1]))
           /\ trace[k].pass.next = trace[k].next
           /\ DeclaredAdvances(trace, k)
      ELSE trace[k].pass.panic = "Invalid characters in Residue generations"

\* The loop ends with the declared sequence, wherever the residue cursor is
C14_Ends(declared, trace) ==
    /\ Len(trace) <= Len(declared)
    /\ \A k \in DOMAIN trace : trace[k].raw_index = k - 1
    /\ trace # <<>> /\ trace[Len(trace)].pass.panic = "none"
       => Len(trace) = Len(declared)

C14_Amended(chain, declared, trace) ==
    /\ C14_Ends(declared, trace)
    /\ \A k \in DOMAIN trace : C14_Pass(chain, declared, trace, k)

\* C14, amended: the merge loop stops when the declared sequence is
\* exhausted, whether residues remain or not, and adds no residue and
\* pushes no diagnostic for the residues that remain.  When the residues
\* are exhausted while declared positions remain the loop goes on: each
\* remaining position gives a residue with that serial number, the declared
\* code and no atoms, appended to the chain without a diagnostic (and parse
\* panics where Residue::new rejects the code).  The only diagnostic after
\* the loop is the one StrictWarning given iff the declared length is not
\* the chain's final count.
C14_ExhaustionOfTheMerge ==
    /\ [](pc = "validate_seqres" =>
            \A id \in Reconcilable :
              C14_Amended(ChainById(id), Declared(sequence[id]),
                          TraceOf(ChainById(id), sequence[id])))
    /\ [][C14_FinalStep]_vars

\* Residue 1 alone, with three declared codes: residues 2 and 3 were
\* appended without a diagnostic
C14_Witness ==
    /\ pc = "add_modifications" /\ errors = <<>>
    /\ FindChain(pdb, "A") # <<>>
    /\ ~ChainById("A").database_reference.some
    /\ LET residues == ChainById("A").residues
       IN  [k \in 1..Len(residues) |->
              <<residues[k].serial_number, residues[k].id,
                residues[k].atoms # <<>>>>]
             = <<<<1, ALA, TRUE>>, <<2, GLY, FALSE>>, <<3, SER, FALSE>>>>

\* The differences of a database reference that have no database residue
\* and lie in front of the start of its local range
InFront(db_ref) ==
    {k \in DOMAIN db_ref.differences :
       /\ db_ref.differences[k].database_residue = None
       /\ db_ref.differences[k].residue[2] < db_ref.pdb_position.start}

\* The offset as it is claimed
ClaimedOffset(chain) ==
    IF chain.database_reference.some
    THEN chain.database_reference.v.pdb_position.start
         - Cardinality(InFront(chain.database_reference.v))
    ELSE 1

\* The total the SEQRES rows declare
DeclaredTotal(rows) == SeqresRows(rows, 1, 0).residues

\* The diagnostics about the range of the database reference
RangeWarnings(errs) ==
    {k \in DOMAIN errs :
       /\ errs[k].level = "StrictWarning"
       /\ errs[k].short = "SEQRES residue total invalid"
       /\ errs[k].long = "does not match the dbref record"}

C15_Chain(chain, rows, after) ==
    /\ pc' = "add_modifications"
    /\ ClaimedOffset(chain) >= 0
    /\ Cardinality(RangeWarnings(Appended))
         = Once(/\ chain.database_reference.some
                /\ chain.database_reference.v.pdb_position.end
                     - ClaimedOffset(chain) + 1 # DeclaredTotal(rows))
    /\ after = AfterTrace(chain,
                          MergeTrace(chain, chain, Declared(rows),
                                     ClaimedOffset(chain), 0, 1))

C15_Step ==
    pc = "validate_seqres" /\ pc' # pc =>
      \A id \in Reconcilable :
        Reconcilable = {id} =>
          C15_Chain(ChainById(id), sequence[id],
                    ChainOf(pdb', FindChain(pdb, id)))

\* C15: validate_seqres takes 1 as the offset of a chain without a
\* database reference, and otherwise the start of the reference's local
\* range less the number of its differences that have no database residue
\* and lie in front of that start; it gives one StrictWarning iff the end
\* of the range less the offset plus one is not the declared total, and
\* goes on to merge the chain with that offset, for every start, end and
\* number of such differences, a start smaller than that number and an end
\* smaller than the offset included.
C15_OffsetIsComputed == [][C15_Step]_vars

\* The staged database references of a chain, by their places
StagedFor(chain_id) ==
    {k \in DOMAIN database_references :
       database_references[k][1] = chain_id}

\* The staged references with the difference of the record appended to the
\* differences of the one at place k
WithDifference(k, i) ==
    [database_references EXCEPT
       ![k][2].differences =
         Append(@, [residue |-> <<i.res_name, i.seq_num>>,
                    database_residue |-> i.db_pos, comment |-> i.comment])]

C16_Seqadv(r) ==
    /\ r.kind = "Ok"
    /\ IsPrefix(errors \o r.errors, errors')
    /\ IF StagedFor(r.item.chain_id) = {}
       THEN /\ Len(AfterLexer(r)) = 1
            /\ AfterLexer(r)[1].level = "StrictWarning"
            /\ database_references' = database_references
       ELSE /\ AfterLexer(r) = <<>>
            /\ \E k \in StagedFor(r.item.chain_id) :
                 database_references' = WithDifference(k, r.item)
    /\ pdb' = pdb /\ current_model' = current_model
    /\ sequence' = sequence /\ modifications' = modifications

\* A database reference is staged without differences, and those staged
\* before it stay as they are
C16_Dbref ==
    /\ Len(database_references') = Len(database_references) + 1
    /\ IsPrefix(database_references, database_references')
    /\ database_references'[Len(database_references')][2].differences = <<>>

C16_Step ==
    /\ LineStep /\ Slice(line', 0, 6) = Tag.SEQADV
       => C16_Seqadv(lex_line(line'))
    /\ LineStep /\ Slice(line', 0, 6) = Tag.DBREF => C16_Dbref
    /\ ~(LineStep /\ Slice(line', 0, 6) \in {Tag.SEQADV, Tag.DBREF})
       => database_references' = database_references

\* C16: the step on a SEQADV record whose chain has no database reference
\* staged appends exactly one StrictWarning and stages nothing; a DBREF
\* that comes later is staged without differences, so the record stays
\* dropped.  Otherwise the step appends the difference after the
\* differences of a staged reference of that chain and gives no
\* diagnostic.  Either way the PDB, the accumulator, the SEQRES rows and
\* the MODRES records are as they were.
C16_SeqadvNeedsDbref == [][C16_Step]_vars

\* Two differences of chain A came after its DBREF, and one of chain B,
\* which has none: the two are staged in the order they came
C16_Witness ==
    /\ pc = "scan" /\ linenumber = 4
    /\ Len(database_references) = 1
    /\ Len(database_references[1][2].differences) = 2
    /\ database_references[1][2].differences[1].residue[2] = 0
    /\ database_references[1][2].differences[2].residue[2] = 1
    /\ Shorts(errors, "Sequence Difference Database not found") = 1

\* The residues of the chain that the record names, by their places
Named(chain, item) ==
    {k \in DOMAIN chain.residues :
       /\ chain.residues[k].id = item.res_name
       /\ chain.residues[k].serial_number = item.seq_num}

\* Which of the four outcomes a MODRES record has
ModresOutcome(item) ==
    IF FindChain(pdb, item.chain_id) = <<>> THEN "no chain"
    ELSE IF Named(ChainById(item.chain_id), item) = {} THEN "no residue"
    ELSE IF ~(ValidText(item.std_name) /\ ValidText(item.comment))
    THEN "rejected"
    ELSE "set"

\* The one diagnostic of a record that is not applied
ModresDiagnostic(outcome, e) ==
    /\ e.level = "InvalidatingError"
    /\ outcome = "no chain"
       => e.short = "Modified residue could not be found"
          /\ e.long = "chain not found"
    /\ outcome = "no residue"
       => e.short = "Modified residue could not be found"
          /\ e.long = "residue not found"
    /\ outcome = "rejected" => e.short = "Invalid characters"

\* The records that are not applied, by their places in the order they came
NotApplied ==
    SelectSeq([k \in DOMAIN modifications |-> k],
              LAMBDA k : ModresOutcome(modifications[k]) # "set")

\* The records that are applied to the residue at that place
AppliedTo(mi, ci, ri) ==
    {k \in DOMAIN modifications :
       /\ ModresOutcome(modifications[k]) = "set"
       /\ FindChain(pdb, modifications[k].chain_id) = <<mi, ci>>
       /\ ri = CHOOSE r \in Named(pdb.models[mi].chains[ci], modifications[k]) :
                 \A q \in Named(pdb.models[mi].chains[ci], modifications[k]) :
                   r <= q}

Last(places) == CHOOSE k \in places : \A q \in places : q <= k

\* The residue after the records: as it was, but for the modification of
\* the last record applied to it
Modified(mi, ci, ri) ==
    IF AppliedTo(mi, ci, ri) = {}
    THEN pdb.models[mi].chains[ci].residues[ri]
    ELSE [pdb.models[mi].chains[ci].residues[ri] EXCEPT
            !.modification =
              Some(<<modifications[Last(AppliedTo(mi, ci, ri))].std_name,
                     modifications[Last(AppliedTo(mi, ci, ri))].comment>>)]

ModifiedChain(mi, ci) ==
    [pdb.models[mi].chains[ci] EXCEPT
       !.residues = [ri \in DOMAIN @ |-> Modified(mi, ci, ri)]]

ModifiedModel(mi) ==
    [pdb.models[mi] EXCEPT
       !.chains = [ci \in DOMAIN @ |-> ModifiedChain(mi, ci)]]

ModifiedPDB ==
    [pdb EXCEPT !.models = [mi \in DOMAIN @ |-> ModifiedModel(mi)]]

C17_Step ==
    pc = "add_modifications" /\ pc' # pc =>
      /\ pc' = "validate"
      /\ IsPrefix(errors, errors')
      /\ Len(Appended) = Len(NotApplied)
      /\ \A k \in DOMAIN NotApplied :
           ModresDiagnostic(ModresOutcome(modifications[NotApplied[k]]),
                            Appended[k])
      /\ pdb' = ModifiedPDB

\* C17: add_modifications, which parse runs after validate_seqres, gives
\* each staged MODRES record one of four outcomes: one InvalidatingError
\* about the chain when no chain has its id; one InvalidatingError about
\* the residue, a different one, when the chain has no residue of its name
\* and serial number; one InvalidatingError when set_modification rejects
\* the value; or the modification set on that residue and no diagnostic.
\* The diagnostics come in the order of the records, and nothing of the PDB
\* changes but the modification of the residues matched, a residue that
\* validate_seqres made included.
C17_ModresOutcomes == [][C17_Step]_vars

\* Residue 2 of chain A was made by validate_seqres and bears the
\* modification of a MODRES record
C17_Witness ==
    /\ pc = "validate" /\ errors = <<>>
    /\ FindChain(pdb, "A") # <<>>
    /\ Len(ChainById("A").residues) = 3
    /\ ChainById("A").residues[2].atoms = <<>>
    /\ ChainById("A").residues[2].modification = Some(<<GLY, <<"x">>>>)


\* A step of the loop on a line that lexes to an ANISOU record
AnisouStep ==
    /\ LineStep
    /\ lex_line(line').kind = "Ok"
    /\ lex_line(line').item.tag = "Anisou"

\* The places of the atoms of the model that have the serial number
Matching(model, serial) ==
    {ModelAllAtoms(model)[k] : k \in
       {j \in 1..Len(ModelAllAtoms(model)) :
          AtomAt(model, ModelAllAtoms(model)[j]).serial_number = serial}}

\* The line read last put an atom into the accumulator.
JustInserted ==
    /\ pc = "scan"
    /\ line # <<>>
    /\ lex_line(line).kind = "Ok"
    /\ lex_line(line).item.tag = "Atom"

\* Where the atom of that record is once add_atom or add_hetero_atom has put
\* it into the model: the last atom of its residue
PlaceOf(model, i) ==
    LET chains == IF i.hetero THEN model.hetero_chains ELSE model.chains
        ci == FirstIndex([k \in 1..Len(chains) |-> chains[k].id = i.chain_id])
        ri == FirstIndex([k \in 1..Len(chains[ci].residues) |->
                            chains[ci].residues[k].serial_number
                              = i.residue_serial_number])
    IN  <<IF i.hetero THEN "hetero_chains" ELSE "chains", ci, ri,
          Len(chains[ci].residues[ri].atoms)>>

C18_Anisou(r) ==
    /\ pdb' = pdb
    /\ errors' = errors \o r.errors
    /\ Matching(current_model, r.item.serial_number) = {}
       => current_model' = current_model
    /\ Matching(current_model, r.item.serial_number) # {}
       => \E place \in Matching(current_model, r.item.serial_number) :
            current_model' = SetAtf(current_model, place, r.item.factors)
    /\ JustInserted
       /\ lex_line(line).item.serial_number = r.item.serial_number
       => current_model' =
            SetAtf(current_model, PlaceOf(current_model, lex_line(line).item),
                   r.item.factors)

C18_Step == AnisouStep => C18_Anisou(lex_line(line'))

\* C18: the step on an ANISOU record leaves the models of the PDB as they
\* are and adds no diagnostic of its own.  Without an atom of the record's
\* serial number in the accumulator the accumulator stays as it is;
\* otherwise the factors are set on exactly one atom of that serial number
\* and nothing else changes, and when the line before was an atom line
\* with that serial number, the atom inserted last, that one atom is the
\* atom of that line, whatever chain and residue it went into.
C18_AnisouGoesToLatestAtom == [][C18_Step]_vars


\* The charge written in columns 78 and 79: a digit and a sign
WrittenCharge(chars) ==
    IF At(chars, 78) \in Digits /\ At(chars, 79) \in {"+", "-"}
    THEN IF At(chars, 79) = "-" THEN 0 - DigitVal(At(chars, 78))
         ELSE DigitVal(At(chars, 78))
    ELSE 0

\* The optional fields of an atom record: read from their columns when the
\* line holds all of them, the default otherwise
C19_Fields(chars, i) ==
    /\ i.occupancy = IF Len(chars) >= 60 THEN Field("f64", chars, 54, 60).v
                     ELSE F64(1, 1)
    /\ i.b_factor = IF Len(chars) >= 66 THEN Field("f64", chars, 60, 66).v
                    ELSE F64(0, 1)
    /\ i.segment_id = IF Len(chars) >= 76 THEN Slice(chars, 72, 76)
                      ELSE Blank(4)
    /\ i.element = IF Len(chars) >= 78 THEN Slice(chars, 76, 78)
                   ELSE Blank(2)
    /\ i.charge = IF Len(chars) >= 80 THEN WrittenCharge(chars) ELSE 0

C19_Step ==
    LineStep /\ Slice(line', 0, 6) \in AtomTags /\ Len(line') >= 54 =>
      /\ pc' # "panic"
      /\ lex_line(line').kind = "Ok"
      /\ lex_line(line').item.tag = "Atom"
      /\ C19_Fields(line', lex_line(line').item)

\* C19: the step on an ATOM or HETATM line of 54 characters or more gets
\* an atom record from lex_line and does not end parse, whatever the length
\* of the line; in the record, occupancy is 1.0 without columns 54 to 59,
\* b-factor 0.0 without columns 60 to 65, segment id four blanks without
\* columns 72 to 75, element two blanks without columns 76 and 77, charge 0
\* without columns 78 and 79, and a field whose columns are all on the
\* line is read from them.
C19_WideAtomLineLexes == [][C19_Step]_vars


\* The rows of an optional transform: none is set before it is created
RowsOf(transform) == IF transform.some THEN transform.v ELSE TransformNew

\* The transform is there, with row n as given and its other rows as before.
OnlyRow(before, after, n, row) ==
    /\ after.some
    /\ after.v = [RowsOf(before) EXCEPT ![n + 1] = Some(row)]

\* The operators with that serial number
WithSerial(mtrix, ser) ==
    {k \in 1..Len(mtrix) : mtrix[k].serial_number = ser}

C20_Mtrix(i) ==
    /\ pdb'.origx = pdb.origx /\ pdb'.scale = pdb.scale
    /\ Len(pdb'.mtrix)
         = Len(pdb.mtrix) + Once(WithSerial(pdb.mtrix, i.ser) = {})
    /\ \A k \in 1..Len(pdb.mtrix) :
         pdb.mtrix[k].serial_number # i.ser => pdb'.mtrix[k] = pdb.mtrix[k]
    /\ \E k \in WithSerial(pdb'.mtrix, i.ser) :
         /\ WithSerial(pdb'.mtrix, i.ser) = {k}
         /\ pdb'.mtrix[k].contained = i.given
         /\ pdb'.mtrix[k].rows =
              [(IF k <= Len(pdb.mtrix) THEN pdb.mtrix[k].rows
                ELSE TransformNew) EXCEPT ![i.n + 1] = Some(i.row)]

C20_Row(i) ==
    /\ i.tag = "OrigX"
       => /\ OnlyRow(pdb.origx, pdb'.origx, i.n, i.row)
          /\ pdb'.scale = pdb.scale /\ pdb'.mtrix = pdb.mtrix
    /\ i.tag = "Scale"
       => /\ OnlyRow(pdb.scale, pdb'.scale, i.n, i.row)
          /\ pdb'.origx = pdb.origx /\ pdb'.mtrix = pdb.mtrix
    /\ i.tag = "MtriX" => C20_Mtrix(i)

TransformTags == {"OrigX", "Scale", "MtriX"}

C20_Step ==
    IF LineStep /\ lex_line(line').kind = "Ok"
       /\ lex_line(line').item.tag \in TransformTags
    THEN C20_Row(lex_line(line').item)
    ELSE /\ pdb'.origx = pdb.origx /\ pdb'.scale = pdb.scale
         /\ pdb'.mtrix = pdb.mtrix

\* No two operators have the same serial number.
SerialsDiffer ==
    \A j, k \in 1..Len(pdb.mtrix) :
      pdb.mtrix[j].serial_number = pdb.mtrix[k].serial_number => j = k

\* C20: the PDB holds one ORIGX and one SCALE transform at most, each there
\* from its first row on, and no two MTRIX operators with the same serial
\* number: a row makes a new operator only when its serial number has none,
\* so there are as many operators as serial numbers seen.  The step on row
\* n sets row n of its transform (and the `given` flag of a MTRIX operator)
\* and leaves its other rows, the other transforms and the other operators
\* as they were; no other step changes a transform.
C20_TransformRows == []SerialsDiffer /\ [][C20_Step]_vars

\* Two operators, one with two rows and the flag, and an ORIGX or SCALE
\* transform with one row
C20_Witness ==
    /\ Len(pdb.mtrix) = 2
    /\ \E k \in 1..2 :
         /\ pdb.mtrix[k].rows[1].some /\ pdb.mtrix[k].rows[2].some
         /\ pdb.mtrix[k].contained
    /\ \/ pdb.origx.some /\ ~TransformValid(pdb.origx.v)
       \/ pdb.scale.some /\ ~TransformValid(pdb.scale.v)


\* The codes at columns [index, index + 3), [index + 4, index + 7), ... up
\* to the first that is blank or does not lie wholly before column `max`
RECURSIVE CompleteCodes(_, _, _)
CompleteCodes(chars, index, max) ==
    IF index + 3 <= max /\ Slice(chars, index, index + 3) # Blank(3)
    THEN <<Slice(chars, index, index + 3)>>
         \o CompleteCodes(chars, index + 4, max)
    ELSE <<>>

C21_Step ==
    LineStep /\ Slice(line', 0, 6) = Tag.SEQRES /\ Len(line') >= 19 =>
      /\ lex_line(line').kind = "Ok"
      /\ lex_line(line').item.tag = "Seqres"
      /\ lex_line(line').item.values =
           CompleteCodes(line', 19, IF Len(line') < 71 THEN Len(line') ELSE 71)

\* C21: the record that lex_line gives for a SEQRES line holds the codes of
\* columns 19 to 21, 23 to 25, and so on, in that order, up to the first
\* triple that is blank or does not lie wholly on the line and before
\* column 71; a line that ends right after its last code gives that code
\* too.
C21_SeqresCodes == [][C21_Step]_vars


\* The column after the last one that the lexer of a record kind reads on
\* every line, by the six characters of the tag
LastColumn ==
    [t \in {Tag.SCALE1, Tag.SCALE2, Tag.SCALE3, Tag.ORIGX1, Tag.ORIGX2,
            Tag.ORIGX3, Tag.MTRIX1, Tag.MTRIX2, Tag.MTRIX3, Tag.CRYST1}
       |-> 55]
    @@ (Tag.REMARK :> 10) @@ (Tag.ANISOU :> 70) @@ (Tag.MASTER :> 70)
    @@ (Tag.DBREF :> 68) @@ (Tag.SEQRES :> 17) @@ (Tag.SEQADV :> 49)
    @@ (Tag.MODRES :> 29)

\* A step of the loop on a line with the tag of a record kind other than
\* the atoms that ends before the record does
ShortStep ==
    /\ LineStep
    /\ Len(line') > 6
    /\ Slice(line', 0, 6) \in DOMAIN LastColumn
    /\ Len(line') < LastColumn[Slice(line', 0, 6)]

C22_Step ==
    ShortStep => /\ pc' = "scan"
                 /\ lex_line(line').kind \in {"Ok", "Err"}
                 /\ lex_line(line').kind = "Err"
                    => errors' = Append(errors, lex_line(line').error)

\* C22: the step on a line that has the tag of a REMARK, ANISOU, CRYST1,
\* SCALEn, ORIGXn, MTRIXn, MASTER, DBREF, SEQRES, SEQADV or MODRES record
\* and is shorter than the record's last fixed column does not end parse:
\* lex_line gives a record or one diagnostic, and the loop goes on with the
\* next line.
C22_ShortLineGoesOn == [][C22_Step]_vars


\* The sequence differences that the scan accepted for the chain id, in the
\* order they came: those of the staged references of that chain
AcceptedFor(chain_id) ==
    Flatten([k \in 1..Len(database_references) |->
               IF database_references[k][1] = chain_id
               THEN database_references[k][2].differences
               ELSE <<>>])

\* The chain has no database reference, or one with all the differences
\* accepted for its id.
HoldsAccepted(chain) ==
    chain.database_reference.some
    => chain.database_reference.v.differences = AcceptedFor(chain.id)

\* C23: once the references are set on their chains at the end of the
\* scan, every chain that has a database reference has in it every sequence
\* difference that was accepted for its chain id, in the order they came,
\* however many DBREF records of that chain id were staged.
C23_AttachedHoldsDifferences ==
    pc = "validate_seqres"
    => \A mi \in 1..Len(pdb.models) :
         \A ci \in 1..Len(pdb.models[mi].chains) :
           HoldsAccepted(pdb.models[mi].chains[ci])

=============================================================================
